---- MODULE Spec2Model ----
\* Verification model of the Obsidian-to-WordPress publisher:
\* the frontmatter codec (frontmatter.ts), image discovery
\* (markdown-converter.ts), the REST client's taxonomy resolution
\* (wordpress-client.ts) and the publish workflow (publisher.ts, main.ts).
\*
\* Text is a sequence of one-character strings; "\n" is the line break.
EXTENDS Integers, Sequences, FiniteSets, TLC

\* ---------------------------------------------------------------------
\* JavaScript string primitives used by the sources
\* ---------------------------------------------------------------------

Min(S) == CHOOSE x \in S : \A y \in S : x <= y

LowerLetters ==
  <<"a","b","c","d","e","f","g","h","i","j","k","l","m",
    "n","o","p","q","r","s","t","u","v","w","x","y","z">>

UpperLetters ==
  <<"A","B","C","D","E","F","G","H","I","J","K","L","M",
    "N","O","P","Q","R","S","T","U","V","W","X","Y","Z">>

DigitChars == <<"0","1","2","3","4","5","6","7","8","9">>

Range(s) == {s[i] : i \in DOMAIN s}

\* the class \s restricted to the characters of the model
SpaceChars == {" ", "\t", "\n"}

IsSpace(c) == c \in SpaceChars

\* the class \w
WordChars == Range(LowerLetters) \cup Range(UpperLetters) \cup Range(DigitChars) \cup {"_"}

DigitValue(c) == (CHOOSE i \in DOMAIN DigitChars : DigitChars[i] = c) - 1

toLowerCaseChar(c) ==
  IF c \in Range(UpperLetters)
  THEN LowerLetters[CHOOSE i \in DOMAIN UpperLetters : UpperLetters[i] = c]
  ELSE c

toLowerCase(s) == [i \in DOMAIN s |-> toLowerCaseChar(s[i])]

\* s.substring(i - 1) for a 1-based i
From(s, i) == SubSeq(s, i, Len(s))

\* s.startsWith(pre, i - 1)
startsWithAt(s, pre, i) ==
  /\ i >= 1
  /\ i + Len(pre) - 1 <= Len(s)
  /\ SubSeq(s, i, i + Len(pre) - 1) = pre

startsWith(s, pre) == startsWithAt(s, pre, 1)

\* 1-based s.indexOf(pat, from - 1); 0 when there is no occurrence
indexOf(s, pat, from) ==
  LET hits == {i \in from..(Len(s) - Len(pat) + 1) : startsWithAt(s, pat, i)}
  IN IF hits = {} THEN 0 ELSE Min(hits)

includes(s, pat) == indexOf(s, pat, 1) # 0

\* the length of the run, from position i, of characters of the set class
spanIn(s, i, class) ==
  LET stops == {j \in i..Len(s) : s[j] \notin class}
  IN (IF stops = {} THEN Len(s) + 1 ELSE Min(stops)) - i

spanSpace(s, i) == spanIn(s, i, SpaceChars)

spanWord(s, i) == spanIn(s, i, WordChars)

spanDigits(s, i) == spanIn(s, i, Range(DigitChars))

\* length of the longest run from position i of characters outside the set stop
spanNot(s, i, stop) ==
  LET stops == {j \in i..Len(s) : s[j] \in stop}
  IN (IF stops = {} THEN Len(s) + 1 ELSE Min(stops)) - i

trimStart(s) == From(s, 1 + spanSpace(s, 1))

trimEnd(s) ==
  LET keep == {j \in 1..Len(s) : ~IsSpace(s[j])}
  IN IF keep = {} THEN <<>> ELSE SubSeq(s, 1, CHOOSE j \in keep : \A k \in keep : k <= j)

trim(s) == trimEnd(trimStart(s))

\* the elements of s at the positions I, in the order of s
Pick(s, I) ==
  [k \in 1..Cardinality(I) |-> s[CHOOSE i \in I : Cardinality({j \in I : j <= i}) = k]]

\* the concatenation piece[lo] \o ... \o piece[hi], by halving
RECURSIVE concatRange(_, _, _)
concatRange(piece, lo, hi) ==
  IF lo > hi THEN <<>>
  ELSE IF lo = hi THEN piece[lo]
  ELSE LET mid == (lo + hi) \div 2
       IN concatRange(piece, lo, mid) \o concatRange(piece, mid + 1, hi)

\* s.split(sep) for a one-character separator
split(s, sep) ==
  LET seps == {i \in 1..Len(s) : s[i] = sep}
      n == Cardinality(seps)
      \* position of the k-th separator; 0 and Len(s) + 1 fence the ends
      at(k) == IF k = 0 THEN 0
               ELSE IF k = n + 1 THEN Len(s) + 1
               ELSE CHOOSE p \in seps : Cardinality({q \in seps : q < p}) = k - 1
  IN [k \in 1..(n + 1) |-> SubSeq(s, at(k - 1) + 1, at(k) - 1)]

\* lines.join(sep)
join(ss, sep) ==
  concatRange([i \in 1..Len(ss) |-> IF i = 1 THEN ss[i] ELSE sep \o ss[i]], 1, Len(ss))

\* parseInt(s, 10): <<>> stands for NaN, <<n>> for the number n
RECURSIVE digitsValue(_, _, _)
digitsValue(s, i, n) == IF n = 0 THEN 0 ELSE digitsValue(s, i, n - 1) * 10 + DigitValue(s[i + n - 1])

parseInt(v) ==
  LET s == trimStart(v)
      signed == Len(s) > 0 /\ s[1] \in {"-", "+"}
      first == IF signed THEN 2 ELSE 1
      n == spanDigits(s, first)
      mag == digitsValue(s, first, n)
  IN IF n = 0 THEN <<>>
     ELSE IF signed /\ s[1] = "-" THEN <<0 - mag>> ELSE <<mag>>

\* String(n) of an integer
RECURSIVE natToString(_)
natToString(n) == IF n < 10 THEN <<DigitChars[n + 1]>> ELSE natToString(n \div 10) \o <<DigitChars[(n % 10) + 1]>>

numberToString(n) == IF n < 0 THEN <<"-">> \o natToString(0 - n) ELSE natToString(n)

\* the replacement patterns of String.prototype.replace(regexp, string) for a
\* regexp without capture groups: $$ $& $` $' are expanded, any other $ is literal.
\* A "$" starts a pattern when an even number of "$" directly precede it (an odd
\* one is the second character of "$$") and a pattern character follows.
expandReplacement(repl, matched, before, after) ==
  LET dollarsBefore(i) ==
        LET others == {j \in 1..(i - 1) : repl[j] # "$"}
        IN (i - 1) - (IF others = {} THEN 0 ELSE CHOOSE j \in others : \A k \in others : k <= j)
      starts(i) ==
        /\ i >= 1
        /\ i < Len(repl)
        /\ repl[i] = "$"
        /\ dollarsBefore(i) % 2 = 0
        /\ repl[i + 1] \in {"$", "&", "`", "'"}
      piece == [i \in 1..Len(repl) |->
                 IF starts(i - 1) THEN <<>>
                 ELSE IF starts(i)
                 THEN (CASE repl[i + 1] = "$" -> <<"$">>
                         [] repl[i + 1] = "&" -> matched
                         [] repl[i + 1] = "`" -> before
                         [] repl[i + 1] = "'" -> after)
                 ELSE <<repl[i]>>]
  IN concatRange(piece, 1, Len(repl))

\* ---------------------------------------------------------------------
\* frontmatter.ts
\* ---------------------------------------------------------------------

W_title == <<"t","i","t","l","e">>
W_slug == <<"s","l","u","g">>
W_status == <<"s","t","a","t","u","s">>
W_excerpt == <<"e","x","c","e","r","p","t">>
W_date == <<"d","a","t","e">>
W_wp_post_id == <<"w","p","_","p","o","s","t","_","i","d">>
W_categories == <<"c","a","t","e","g","o","r","i","e","s">>
W_tags == <<"t","a","g","s">>

S_draft == <<"d","r","a","f","t">>
S_publish == <<"p","u","b","l","i","s","h">>
S_private == <<"p","r","i","v","a","t","e">>
S_future == <<"f","u","t","u","r","e">>

VALID_STATUSES == {S_draft, S_publish, S_private, S_future}

\* a PostFrontmatter object: a function from the names of its defined fields
EmptyFrontmatter == [k \in {} |-> <<>>]

Has(fm, k) == k \in DOMAIN fm

Put(fm, k, v) == [x \in (DOMAIN fm) \cup {k} |-> IF x = k THEN v ELSE fm[x]]

\* { ...a, ...b }
Spread(a, b) == [x \in (DOMAIN a) \cup (DOMAIN b) |-> IF x \in DOMAIN b THEN b[x] ELSE a[x]]

FrontmatterOpen == <<"-","-","-","\n">>
FrontmatterClose == <<"\n","-","-","-">>

\* /^---\n([\s\S]*?)\n---/ : the position of the closing "\n---", 0 when the
\* content does not match
frontmatterMatch(content) ==
  IF startsWith(content, FrontmatterOpen)
  THEN indexOf(content, FrontmatterClose, Len(FrontmatterOpen) + 1)
  ELSE 0

\* value.replace(/^["']|["']$/g, "")
stripQuotes(v) ==
  LET a == IF Len(v) > 0 /\ v[1] \in {"\"", "'"} THEN Tail(v) ELSE v
  IN IF Len(a) > 0 /\ a[Len(a)] \in {"\"", "'"} THEN SubSeq(a, 1, Len(a) - 1) ELSE a

\* line.match(/^\s+-\s+/): the length of the matched prefix, 0 when no match
arrayItemPrefix(line) ==
  LET lead == spanSpace(line, 1)
      dash == lead + 1
      gap == spanSpace(line, dash + 1)
  IN IF lead >= 1 /\ dash <= Len(line) /\ line[dash] = "-" /\ gap >= 1
     THEN dash + gap
     ELSE 0

\* line.match(/^(\w+):\s*(.*)$/): the length of the key, 0 when no match
kvKeyLength(line) ==
  LET n == spanWord(line, 1)
  IN IF n >= 1 /\ n + 1 <= Len(line) /\ line[n + 1] = ":" THEN n ELSE 0

\* a changed switch: the status is stored unchecked
setSingleValue_anyStatus(result, key, value) ==
  CASE key = W_title -> Put(result, "title", value)
    [] key = W_slug -> Put(result, "slug", value)
    [] key = W_status -> Put(result, "status", value)
    [] key = W_excerpt -> Put(result, "excerpt", value)
    [] key = W_date -> Put(result, "date", value)
    [] key = W_wp_post_id ->
         LET id == parseInt(value)
         IN IF id # <<>> THEN Put(result, "wp_post_id", id[1]) ELSE result
    [] key = W_categories -> Put(result, "categories", <<value>>)
    [] key = W_tags -> Put(result, "tags", <<value>>)
    [] OTHER -> result

setSingleValue(result, key, value) ==
  CASE key = W_title -> Put(result, "title", value)
    [] key = W_slug -> Put(result, "slug", value)
    [] key = W_status ->
         IF value \in VALID_STATUSES THEN Put(result, "status", value) ELSE result
    [] key = W_excerpt -> Put(result, "excerpt", value)
    [] key = W_date -> Put(result, "date", value)
    [] key = W_wp_post_id ->
         LET id == parseInt(value)
         IN IF id # <<>> THEN Put(result, "wp_post_id", id[1]) ELSE result
    [] key = W_categories -> Put(result, "categories", <<value>>)
    [] key = W_tags -> Put(result, "tags", <<value>>)
    [] OTHER -> result

setArrayValue(result, key, values) ==
  CASE key = W_categories -> Put(result, "categories", values)
    [] key = W_tags -> Put(result, "tags", values)
    [] OTHER -> result

\* the items of an inline array [a, b]: trimmed, unquoted, empty items removed
RECURSIVE inlineItems(_)
inlineItems(parts) ==
  IF Len(parts) = 0 THEN <<>>
  ELSE LET item == stripQuotes(trim(parts[1]))
       IN (IF item = <<>> THEN <<>> ELSE <<item>>) \o inlineItems(Tail(parts))

\* one iteration of the loop over the lines of the block
parseLine(st, line) ==
  IF trim(line) = <<>> THEN st
  ELSE IF arrayItemPrefix(line) > 0 THEN
    IF st.inArray /\ st.currentKey # <<>>
    THEN [st EXCEPT !.arrayValues =
            Append(@, stripQuotes(trim(From(line, arrayItemPrefix(line) + 1))))]
    ELSE st
  ELSE
    LET saved == IF st.inArray /\ st.currentKey # <<>> /\ Len(st.arrayValues) > 0
                 THEN [st EXCEPT !.result = setArrayValue(@, st.currentKey, st.arrayValues),
                                 !.arrayValues = <<>>,
                                 !.inArray = FALSE]
                 ELSE st
        n == kvKeyLength(line)
        key == toLowerCase(SubSeq(line, 1, n))
        value == trim(From(line, n + 2))
        keyed == [saved EXCEPT !.currentKey = key]
    IN IF n = 0 THEN saved
       ELSE IF value = <<>> \/ value = <<"[", "]">>
            THEN [keyed EXCEPT !.inArray = TRUE, !.arrayValues = <<>>]
       ELSE IF value[1] = "[" /\ value[Len(value)] = "]" /\ Len(value) >= 2
            THEN [keyed EXCEPT !.result =
                    setArrayValue(@, key, inlineItems(split(SubSeq(value, 2, Len(value) - 1), ",")))]
       ELSE [keyed EXCEPT !.result = setSingleValue(@, key, stripQuotes(value))]

RECURSIVE parseLines(_, _)
parseLines(st, lines) ==
  IF Len(lines) = 0 THEN st ELSE parseLines(parseLine(st, lines[1]), Tail(lines))

parseFrontmatter(content) ==
  LET close == frontmatterMatch(content)
      yaml == SubSeq(content, Len(FrontmatterOpen) + 1, close - 1)
      st == parseLines([result |-> EmptyFrontmatter, currentKey |-> <<>>,
                        inArray |-> FALSE, arrayValues |-> <<>>],
                       split(yaml, "\n"))
  IN IF close = 0 THEN EmptyFrontmatter
     ELSE IF st.inArray /\ st.currentKey # <<>> /\ Len(st.arrayValues) > 0
          THEN setArrayValue(st.result, st.currentKey, st.arrayValues)
          ELSE st.result

\* str.replace(/"/g, '\\"')
escapeYamlString(str) ==
  concatRange([i \in 1..Len(str) |-> IF str[i] = "\"" THEN <<"\\", "\"">> ELSE <<str[i]>>],
              1, Len(str))

RECURSIVE yamlItems(_)
yamlItems(values) ==
  IF Len(values) = 0 THEN <<>>
  ELSE <<(<<" ", " ", "-", " ">> \o values[1])>> \o yamlItems(Tail(values))

generateYaml(frontmatter) ==
  LET lines ==
        (IF Has(frontmatter, "title")
         THEN <<(W_title \o <<":", " ", "\"">> \o escapeYamlString(frontmatter["title"]) \o <<"\"">>)>>
         ELSE <<>>)
        \o (IF Has(frontmatter, "slug")
            THEN <<(W_slug \o <<":", " ">> \o frontmatter["slug"])>> ELSE <<>>)
        \o (IF Has(frontmatter, "status")
            THEN <<(W_status \o <<":", " ">> \o frontmatter["status"])>> ELSE <<>>)
        \o (IF Has(frontmatter, "excerpt")
            THEN <<(W_excerpt \o <<":", " ", "\"">> \o escapeYamlString(frontmatter["excerpt"]) \o <<"\"">>)>>
            ELSE <<>>)
        \o (IF Has(frontmatter, "date")
            THEN <<(W_date \o <<":", " ">> \o frontmatter["date"])>> ELSE <<>>)
        \o (IF Has(frontmatter, "wp_post_id")
            THEN <<(W_wp_post_id \o <<":", " ">> \o numberToString(frontmatter["wp_post_id"]))>>
            ELSE <<>>)
        \o (IF Has(frontmatter, "categories") /\ Len(frontmatter["categories"]) > 0
            THEN <<(W_categories \o <<":">>)>> \o yamlItems(frontmatter["categories"]) ELSE <<>>)
        \o (IF Has(frontmatter, "tags") /\ Len(frontmatter["tags"]) > 0
            THEN <<(W_tags \o <<":">>)>> \o yamlItems(frontmatter["tags"]) ELSE <<>>)
  IN IF Len(lines) > 0 THEN join(lines, <<"\n">>) \o <<"\n">> ELSE <<>>

updateFrontmatter(content, updates) ==
  LET close == frontmatterMatch(content)
      matched == SubSeq(content, 1, close + 3)
      after == From(content, close + 4)
      merged == Spread(parseFrontmatter(content), updates)
  IN IF close = 0
     THEN FrontmatterOpen \o generateYaml(updates) \o <<"-","-","-","\n","\n">> \o content
     ELSE expandReplacement(FrontmatterOpen \o generateYaml(merged) \o <<"-","-","-">>,
                            matched, <<>>, after) \o after

\* filename.replace(/\.md$/, "")
stripMd(filename) ==
  IF Len(filename) >= 3 /\ From(filename, Len(filename) - 2) = <<".", "m", "d">>
  THEN SubSeq(filename, 1, Len(filename) - 3)
  ELSE filename

getTitle(frontmatter, filename) ==
  IF Has(frontmatter, "title") /\ frontmatter["title"] # <<>>
  THEN frontmatter["title"]
  ELSE stripMd(filename)

\* ---------------------------------------------------------------------
\* markdown-converter.ts: frontmatter removal and image discovery
\* ---------------------------------------------------------------------

\* content.replace(/^---\n[\s\S]*?\n---\n*/, "").trim()
removeFrontmatter(content) ==
  LET close == frontmatterMatch(content)
      rest == From(content, close + 4)
      breaks == spanIn(rest, 1, {"\n"})
  IN IF close = 0 THEN trim(content) ELSE trim(From(rest, breaks + 1))

\* /!\[([^\]]*)\]\(([^)]+)\)/ tried at position i: <<altStart, altLen, pathStart,
\* pathLen, end>> of the match, <<>> when it does not match there
standardImageAt(s, i) ==
  LET a == spanNot(s, i + 2, {"]"})
      close == i + 2 + a
      b == spanNot(s, close + 2, {")"})
      end == close + 2 + b
  IN IF /\ startsWithAt(s, <<"!", "[">>, i)
        /\ startsWithAt(s, <<"]", "(">>, close)
        /\ b >= 1
        /\ startsWithAt(s, <<")">>, end)
     THEN <<i + 2, a, close + 2, b, end>>
     ELSE <<>>

\* /!\[\[([^\]|]+)(?:\|([^\]]+))?\]\]/ tried at position i: <<pathStart, pathLen,
\* altStart, altLen, end>> (altLen 0: no alt group), <<>> when it does not match
wikilinkImageAt(s, i) ==
  LET a == spanNot(s, i + 3, {"]", "|"})
      j == i + 3 + a
      b == spanNot(s, j + 1, {"]"})
  IN IF ~(startsWithAt(s, <<"!", "[", "[">>, i) /\ a >= 1) THEN <<>>
     ELSE IF startsWithAt(s, <<"|">>, j) /\ b >= 1 /\ startsWithAt(s, <<"]", "]">>, j + 1 + b)
          THEN <<i + 3, a, j + 1, b, j + 2 + b>>
     ELSE IF startsWithAt(s, <<"]", "]">>, j)
          THEN <<i + 3, a, i + 3, 0, j + 1>>
     ELSE <<>>

\* the exec loop of a global regexp: every match, leftmost first, none overlapping
RECURSIVE standardImages(_, _)
standardImages(s, from) ==
  LET hits == {i \in from..Len(s) : standardImageAt(s, i) # <<>>}
      i == Min(hits)
      m == standardImageAt(s, i)
  IN IF hits = {} THEN <<>>
     ELSE <<[path |-> SubSeq(s, m[3], m[3] + m[4] - 1),
             altText |-> SubSeq(s, m[1], m[1] + m[2] - 1),
             isWikilink |-> FALSE]>>
          \o standardImages(s, m[5] + 1)

RECURSIVE wikilinkImages(_, _)
wikilinkImages(s, from) ==
  LET hits == {i \in from..Len(s) : wikilinkImageAt(s, i) # <<>>}
      i == Min(hits)
      m == wikilinkImageAt(s, i)
      path == SubSeq(s, m[1], m[1] + m[2] - 1)
  IN IF hits = {} THEN <<>>
     ELSE <<[path |-> path,
             altText |-> IF m[4] = 0 THEN path ELSE SubSeq(s, m[3], m[3] + m[4] - 1),
             isWikilink |-> TRUE]>>
          \o wikilinkImages(s, m[5] + 1)

extractImageReferences(markdown) ==
  LET content == removeFrontmatter(markdown)
  IN standardImages(content, 1) \o wikilinkImages(content, 1)

\* ---------------------------------------------------------------------
\* markdown-converter.ts: splitIntoBlocks
\* ---------------------------------------------------------------------

\* the backquote character (a TLA+ string cannot hold one)
Backquote == "bq"

\* line.startsWith of three backquotes
isFence(line) == startsWith(line, <<Backquote, Backquote, Backquote>>)

\* line.match(/^>\s*\[!/)
isCalloutHeader(line) ==
  /\ startsWith(line, <<">">>)
  /\ startsWithAt(line, <<"[", "!">>, 2 + spanSpace(line, 2))

\* line.match(/^#{1,6}\s/)
isHeader(line) ==
  LET n == spanIn(line, 1, {"#"})
  IN n >= 1 /\ n <= 6 /\ n + 1 <= Len(line) /\ IsSpace(line[n + 1])

\* line.match(/^(-{3,}|\*{3,}|_{3,})$/)
isRule(line) ==
  /\ Len(line) >= 3
  /\ \E c \in {"-", "*", "_"} : \A i \in DOMAIN line : line[i] = c

\* line.match(/^\d+\.\s/) from position i
isOrderedAt(line, i) ==
  LET d == spanDigits(line, i)
  IN /\ d >= 1
     /\ startsWithAt(line, <<".">>, i + d)
     /\ i + d + 1 <= Len(line) /\ IsSpace(line[i + d + 1])

\* line.match(/^[-*+]\s/) from position i
isUnorderedAt(line, i) ==
  /\ i + 1 <= Len(line)
  /\ line[i] \in {"-", "*", "+"}
  /\ IsSpace(line[i + 1])

\* line.match(/^(\s*[-*+]|\s*\d+\.)\s/)
isListLine(line) ==
  LET lead == spanSpace(line, 1)
  IN isUnorderedAt(line, lead + 1) \/ isOrderedAt(line, lead + 1)

\* line.match(/^!\[.*?\]\(.*?\)$/) || line.match(/^!\[\[.*?\]\]$/)
isImageLine(line) ==
  \/ /\ startsWith(line, <<"!", "[">>)
     /\ Len(line) >= 5 /\ line[Len(line)] = ")"
     /\ \E k \in 3..(Len(line) - 2) : startsWithAt(line, <<"]", "(">>, k)
     /\ \A i \in DOMAIN line : line[i] # "\n"
  \/ /\ startsWith(line, <<"!", "[", "[">>)
     /\ Len(line) >= 5 /\ startsWithAt(line, <<"]", "]">>, Len(line) - 1)
     /\ \A i \in DOMAIN line : line[i] # "\n"

\* a changed flush: the lines stay in currentBlock
flushBlock_keepsLines(st) ==
  [st EXCEPT !.blocks = Append(@, join(st.currentBlock, <<"\n">>))]

\* blocks.push(currentBlock.join("\n")); currentBlock = []
flushBlock(st) ==
  [st EXCEPT !.blocks = Append(@, join(st.currentBlock, <<"\n">>)),
             !.currentBlock = <<>>]

\* if (currentBlock.length > 0) { flush }
flushIfOpen(st) == IF Len(st.currentBlock) > 0 THEN flushBlock(st) ELSE st

\* currentBlock.push(line)
pushLine(st, line) == [st EXCEPT !.currentBlock = Append(@, line)]

\* blocks.push(line)
emitLine(st, line) == [st EXCEPT !.blocks = Append(@, line)]

\* one iteration of the loop over the lines
splitLine(st, line) ==
  IF isFence(line) THEN
    IF st.inCodeBlock
    THEN [flushBlock(pushLine(st, line)) EXCEPT !.inCodeBlock = FALSE]
    ELSE [pushLine(flushIfOpen(st), line) EXCEPT !.inCodeBlock = TRUE]
  ELSE IF st.inCodeBlock THEN pushLine(st, line)
  ELSE IF isCalloutHeader(line)
  THEN [pushLine(flushIfOpen(st), line) EXCEPT !.inCallout = TRUE]
  ELSE IF st.inCallout /\ (startsWith(line, <<">">>) \/ trim(line) = <<>>)
  THEN pushLine(st, line)
  ELSE
    LET s == IF st.inCallout THEN [flushBlock(st) EXCEPT !.inCallout = FALSE] ELSE st
    IN IF isHeader(line) THEN emitLine(flushIfOpen(s), line)
       ELSE IF isRule(line) THEN emitLine(flushIfOpen(s), line)
       ELSE IF isListLine(line)
       THEN pushLine(IF Len(s.currentBlock) > 0 /\ ~isListLine(s.currentBlock[1])
                     THEN flushBlock(s) ELSE s, line)
       ELSE IF startsWith(line, <<">">>) /\ ~isCalloutHeader(line)
       THEN pushLine(IF Len(s.currentBlock) > 0 /\ ~startsWith(s.currentBlock[1], <<">">>)
                     THEN flushBlock(s) ELSE s, line)
       ELSE IF isImageLine(line) THEN emitLine(flushIfOpen(s), line)
       ELSE IF trim(line) = <<>> THEN flushIfOpen(s)
       ELSE pushLine(s, line)

RECURSIVE splitLines(_, _)
splitLines(st, lines) ==
  IF Len(lines) = 0 THEN st ELSE splitLines(splitLine(st, lines[1]), Tail(lines))

splitIntoBlocks(content) ==
  LET st == flushIfOpen(splitLines([blocks |-> <<>>, currentBlock |-> <<>>,
                                    inCodeBlock |-> FALSE, inCallout |-> FALSE],
                                   split(content, "\n")))
  IN Pick(st.blocks, {i \in DOMAIN st.blocks : trim(st.blocks[i]) # <<>>})

\* ---------------------------------------------------------------------
\* markdown-converter.ts: convertBlock and the block renderers
\* ---------------------------------------------------------------------

\* escapeHtml: & < > " ' are replaced, & first
escapeHtml(text) ==
  concatRange([i \in 1..Len(text) |->
                 CASE text[i] = "&" -> <<"&","a","m","p",";">>
                   [] text[i] = "<" -> <<"&","l","t",";">>
                   [] text[i] = ">" -> <<"&","g","t",";">>
                   [] text[i] = "\"" -> <<"&","q","u","o","t",";">>
                   [] text[i] = "'" -> <<"&","#","0","3","9",";">>
                   [] OTHER -> <<text[i]>>],
              1, Len(text))

\* uploaded?.wordpressUrl || path
urlOf(imageMap, path) ==
  IF Has(imageMap, path) /\ imageMap[path].wordpressUrl # <<>>
  THEN imageMap[path].wordpressUrl
  ELSE path

\* <img src="${url}" alt="${alt}"/>
imgTag(url, alt) == <<"<","i","m","g"," ","s","r","c","=","\"">> \o url \o <<"\""," ","a","l","t","=","\"">> \o alt \o <<"\"","/",">">>

\* /!\[\[([^\]]+)\]\]/ tried at position i: <<pathStart, pathLen, end>>, <<>>
\* when it does not match there
inlineWikilinkAt(s, i) ==
  LET a == spanNot(s, i + 3, {"]"})
  IN IF /\ startsWithAt(s, <<"!", "[", "[">>, i)
        /\ a >= 1
        /\ startsWithAt(s, <<"]", "]">>, i + 3 + a)
     THEN <<i + 3, a, i + 4 + a>>
     ELSE <<>>

\* result.replace(/!\[\[([^\]]+)\]\]/g, ...) from position from on
RECURSIVE replaceWikilinkImages(_, _, _)
replaceWikilinkImages(s, from, imageMap) ==
  LET hits == {i \in from..Len(s) : inlineWikilinkAt(s, i) # <<>>}
      i == Min(hits)
      m == inlineWikilinkAt(s, i)
      path == SubSeq(s, m[1], m[1] + m[2] - 1)
  IN IF hits = {} THEN From(s, from)
     ELSE SubSeq(s, from, i - 1) \o imgTag(urlOf(imageMap, path), escapeHtml(path))
          \o replaceWikilinkImages(s, m[3] + 1, imageMap)

\* result.replace(/!\[([^\]]*)\]\(([^)]+)\)/g, ...) from position from on
RECURSIVE replaceStandardImages(_, _, _)
replaceStandardImages(s, from, imageMap) ==
  LET hits == {i \in from..Len(s) : standardImageAt(s, i) # <<>>}
      i == Min(hits)
      m == standardImageAt(s, i)
      alt == SubSeq(s, m[1], m[1] + m[2] - 1)
      path == SubSeq(s, m[3], m[3] + m[4] - 1)
  IN IF hits = {} THEN From(s, from)
     ELSE SubSeq(s, from, i - 1) \o imgTag(urlOf(imageMap, path), escapeHtml(alt))
          \o replaceStandardImages(s, m[5] + 1, imageMap)

\* convertInlineFormatting: the two image replacements. The replacements after
\* them (wikilinks, bold, italic, strikethrough, code, highlight, links) match
\* nothing in the texts of the model, which hold no [[ ]] outside an image and
\* none of * _ ~ = and no backquote or link.
convertInlineFormatting(text, imageMap) ==
  replaceStandardImages(replaceWikilinkImages(text, 1, imageMap), 1, imageMap)

\* block.match of the two image patterns: the reference, <<>> for null
extractImageReference(block) ==
  LET std == standardImages(block, 1)
      wiki == wikilinkImages(block, 1)
  IN IF std # <<>> THEN <<std[1]>>
     ELSE IF wiki # <<>> THEN <<wiki[1]>>
     ELSE <<>>

convertParagraph(block, imageMap) ==
  <<"<","!","-","-"," ","w","p",":","p","a","r","a","g","r","a","p","h"," ","-","-",">","\n","<","p",">">> \o convertInlineFormatting(block, imageMap) \o <<"<","/","p",">","\n","<","!","-","-"," ","/","w","p",":","p","a","r","a","g","r","a","p","h"," ","-","-",">">>

convertImage(block, imageMap) ==
  LET imageRef == extractImageReference(block)
  IN IF imageRef = <<>> THEN convertParagraph(block, imageMap)
     ELSE <<"<","!","-","-"," ","w","p",":","i","m","a","g","e"," ","-","-",">","\n","<","f","i","g","u","r","e"," ","c","l","a","s","s","=","\"","w","p","-","b","l","o","c","k","-","i","m","a","g","e","\"",">","<","i","m","g"," ","s","r","c","=","\"">> \o urlOf(imageMap, imageRef[1].path) \o <<"\""," ","a","l","t","=","\"">>
          \o escapeHtml(imageRef[1].altText) \o <<"\"","/",">","<","/","f","i","g","u","r","e",">","\n","<","!","-","-"," ","/","w","p",":","i","m","a","g","e"," ","-","-",">">>

\* trimmed.match(/^(#{1,6})\s+(.+)$/): <<level, textStart>>, <<>> when no match
headerMatch(trimmed) ==
  LET n == spanIn(trimmed, 1, {"#"})
      k == spanSpace(trimmed, n + 1)
  IN IF /\ n >= 1 /\ n <= 6 /\ k >= 1
        /\ Len(trimmed) > n + k
        /\ \A i \in (n + k + 1)..Len(trimmed) : trimmed[i] # "\n"
     THEN <<n, n + k + 1>>
     ELSE <<>>

convertHeading(trimmed, imageMap) ==
  LET m == headerMatch(trimmed)
      level == numberToString(m[1])
  IN <<"<","!","-","-"," ","w","p",":","h","e","a","d","i","n","g"," ","{","\"","l","e","v","e","l","\"",":">> \o level \o <<"}"," ","-","-",">","\n","<","h">> \o level \o <<">">>
     \o convertInlineFormatting(From(trimmed, m[2]), imageMap)
     \o <<"<", "/", "h">> \o level \o <<">","\n","<","!","-","-"," ","/","w","p",":","h","e","a","d","i","n","g"," ","-","-",">">>

convertCodeBlock(block) ==
  LET lines == split(block, "\n")
      language == trim(From(lines[1], 4))
      code == join(SubSeq(lines, 2, Len(lines) - 1), <<"\n">>)
  IN IF language # <<>>
     THEN <<"<","!","-","-"," ","w","p",":","c","o","d","e"," ","-","-",">","\n","<","p","r","e"," ","c","l","a","s","s","=","\"","w","p","-","b","l","o","c","k","-","c","o","d","e","\"",">","<","c","o","d","e"," ","c","l","a","s","s","=","\"","l","a","n","g","u","a","g","e","-">> \o language \o <<"\"", ">">> \o escapeHtml(code) \o <<"<","/","c","o","d","e",">","<","/","p","r","e",">","\n","<","!","-","-"," ","/","w","p",":","c","o","d","e"," ","-","-",">">>
     ELSE <<"<","!","-","-"," ","w","p",":","c","o","d","e"," ","-","-",">","\n","<","p","r","e"," ","c","l","a","s","s","=","\"","w","p","-","b","l","o","c","k","-","c","o","d","e","\"",">","<","c","o","d","e",">">> \o escapeHtml(code) \o <<"<","/","c","o","d","e",">","<","/","p","r","e",">","\n","<","!","-","-"," ","/","w","p",":","c","o","d","e"," ","-","-",">">>

\* line.replace(/^>\s?/, "")
stripQuoteMark(line) ==
  IF startsWith(line, <<">">>)
  THEN From(line, IF Len(line) >= 2 /\ IsSpace(line[2]) THEN 3 ELSE 2)
  ELSE line

\* firstLine.match(/^>\s*\[!(\w+)\]([-+])?\s*(.*)$/): <<typeStart, typeLen,
\* markerPos (0: no marker), titleStart>>, <<>> when no match
calloutHeaderMatch(firstLine) ==
  LET open == 2 + spanSpace(firstLine, 2)
      w == spanWord(firstLine, open + 2)
      close == open + 2 + w
      marked == close + 1 <= Len(firstLine) /\ firstLine[close + 1] \in {"-", "+"}
      next == IF marked THEN close + 2 ELSE close + 1
  IN IF /\ startsWith(firstLine, <<">">>)
        /\ startsWithAt(firstLine, <<"[", "!">>, open)
        /\ w >= 1
        /\ startsWithAt(firstLine, <<"]">>, close)
     THEN <<open + 2, w, IF marked THEN close + 1 ELSE 0,
            next + spanSpace(firstLine, next)>>
     ELSE <<>>

\* type.charAt(0).toUpperCase() + type.slice(1)
capitalize(type) ==
  IF type = <<>> THEN <<>>
  ELSE <<IF type[1] \in Range(LowerLetters)
         THEN UpperLetters[CHOOSE i \in DOMAIN LowerLetters : LowerLetters[i] = type[1]]
         ELSE type[1]>> \o Tail(type)

\* a changed fold marker: "-" is read as foldable and expanded
foldedBy_never(marker) == FALSE

\* headerMatch[2] === "-"
foldedBy(marker) == marker = "-"

parseCallout(block) ==
  LET lines == split(block, "\n")
      m == calloutHeaderMatch(lines[1])
      type == IF m = <<>> THEN <<"n","o","t","e">> ELSE SubSeq(lines[1], m[1], m[1] + m[2] - 1)
      marker == IF m = <<>> \/ m[3] = 0 THEN "" ELSE lines[1][m[3]]
      rest == IF m = <<>> THEN <<>> ELSE From(lines[1], m[4])
      content == trim(join([i \in 1..(Len(lines) - 1) |-> stripQuoteMark(lines[i + 1])],
                           <<"\n">>))
  IN [type |-> type,
      title |-> IF m = <<>> THEN <<>> ELSE IF rest # <<>> THEN rest ELSE capitalize(type),
      content |-> content,
      foldable |-> marker \in {"+", "-"},
      defaultFolded |-> foldedBy(marker)]

convertCallout(block, imageMap) ==
  LET calloutInfo == parseCallout(block)
      typeClass == <<"c","a","l","l","o","u","t","-">> \o toLowerCase(calloutInfo.type)
  IN <<"<","!","-","-"," ","w","p",":","q","u","o","t","e"," ","{","\"","c","l","a","s","s","N","a","m","e","\"",":","\"">> \o typeClass \o <<"\"","}"," ","-","-",">","\n","<","b","l","o","c","k","q","u","o","t","e"," ","c","l","a","s","s","=","\"","w","p","-","b","l","o","c","k","-","q","u","o","t","e"," ">> \o typeClass \o <<"\"",">","<","p",">","<","s","t","r","o","n","g",">">> \o escapeHtml(calloutInfo.title)
     \o <<"<","/","s","t","r","o","n","g",">","<","/","p",">","<","p",">">> \o convertInlineFormatting(calloutInfo.content, imageMap) \o <<"<","/","p",">","<","/","b","l","o","c","k","q","u","o","t","e",">","\n","<","!","-","-"," ","/","w","p",":","q","u","o","t","e"," ","-","-",">">>

convertBlockquote(block, imageMap) ==
  LET lines == split(block, "\n")
      content == join([i \in DOMAIN lines |-> stripQuoteMark(lines[i])], <<"\n">>)
  IN <<"<","!","-","-"," ","w","p",":","q","u","o","t","e"," ","-","-",">","\n","<","b","l","o","c","k","q","u","o","t","e"," ","c","l","a","s","s","=","\"","w","p","-","b","l","o","c","k","-","q","u","o","t","e","\"",">","<","p",">">> \o convertInlineFormatting(content, imageMap) \o <<"<","/","p",">","<","/","b","l","o","c","k","q","u","o","t","e",">","\n","<","!","-","-"," ","/","w","p",":","q","u","o","t","e"," ","-","-",">">>

\* line.match(pattern): the length of the marker, 0 when the line has none
markerLength(line, ordered) ==
  IF ordered
  THEN IF isOrderedAt(line, 1) THEN spanDigits(line, 1) + 2 ELSE 0
  ELSE IF isUnorderedAt(line, 1) THEN 2 ELSE 0

\* parseListItems: the loop over the lines, with the items and currentItem
RECURSIVE listItemsFrom(_, _, _, _)
listItemsFrom(lines, ordered, items, currentItem) ==
  IF Len(lines) = 0
  THEN IF currentItem # <<>> THEN Append(items, currentItem) ELSE items
  ELSE LET line == lines[1]
       IN IF markerLength(line, ordered) > 0
          THEN listItemsFrom(Tail(lines), ordered,
                             IF currentItem # <<>> THEN Append(items, currentItem) ELSE items,
                             From(line, markerLength(line, ordered) + 1))
          ELSE IF spanSpace(line, 1) >= 1 /\ currentItem # <<>>
          THEN listItemsFrom(Tail(lines), ordered, items, currentItem \o <<" ">> \o trim(line))
          ELSE listItemsFrom(Tail(lines), ordered, items, currentItem)

parseListItems(block, ordered) == listItemsFrom(split(block, "\n"), ordered, <<>>, <<>>)

\* items.map((item) => `<li>${convertInlineFormatting(item)}</li>`).join("")
listHtml(items, imageMap) ==
  concatRange([i \in DOMAIN items |->
                 <<"<","l","i",">">> \o convertInlineFormatting(items[i], imageMap)
                 \o <<"<","/","l","i",">">>],
              1, Len(items))

convertUnorderedList(block, imageMap) ==
  <<"<","!","-","-"," ","w","p",":","l","i","s","t"," ","-","-",">","\n","<","u","l"," ","c","l","a","s","s","=","\"","w","p","-","b","l","o","c","k","-","l","i","s","t","\"",">">> \o listHtml(parseListItems(block, FALSE), imageMap) \o <<"<","/","u","l",">","\n","<","!","-","-"," ","/","w","p",":","l","i","s","t"," ","-","-",">">>

convertOrderedList(block, imageMap) ==
  <<"<","!","-","-"," ","w","p",":","l","i","s","t"," ","{","\"","o","r","d","e","r","e","d","\"",":","t","r","u","e","}"," ","-","-",">","\n","<","o","l"," ","c","l","a","s","s","=","\"","w","p","-","b","l","o","c","k","-","l","i","s","t","\"",">">> \o listHtml(parseListItems(block, TRUE), imageMap) \o <<"<","/","o","l",">","\n","<","!","-","-"," ","/","w","p",":","l","i","s","t"," ","-","-",">">>

\* the branch convertBlock takes for a block
blockKind(block) ==
  LET trimmed == trim(block)
  IN IF headerMatch(trimmed) # <<>> THEN "heading"
     ELSE IF isFence(trimmed) THEN "code"
     ELSE IF isCalloutHeader(trimmed) THEN "callout"
     ELSE IF startsWith(trimmed, <<">">>) THEN "quote"
     ELSE IF isRule(trimmed) THEN "separator"
     ELSE IF isOrderedAt(trimmed, 1) THEN "ordered"
     ELSE IF isUnorderedAt(trimmed, 1) THEN "unordered"
     ELSE IF isImageLine(trimmed) THEN "image"
     ELSE "paragraph"

convertBlock(block, imageMap) ==
  LET trimmed == trim(block)
      kind == blockKind(block)
  IN CASE kind = "heading" -> convertHeading(trimmed, imageMap)
       [] kind = "code" -> convertCodeBlock(trimmed)
       [] kind = "callout" -> convertCallout(trimmed, imageMap)
       [] kind = "quote" -> convertBlockquote(trimmed, imageMap)
       [] kind = "separator" -> <<"<","!","-","-"," ","w","p",":","s","e","p","a","r","a","t","o","r"," ","-","-",">","\n","<","h","r"," ","c","l","a","s","s","=","\"","w","p","-","b","l","o","c","k","-","s","e","p","a","r","a","t","o","r"," ","h","a","s","-","a","l","p","h","a","-","c","h","a","n","n","e","l","-","o","p","a","c","i","t","y","\"","/",">","\n","<","!","-","-"," ","/","w","p",":","s","e","p","a","r","a","t","o","r"," ","-","-",">">>
       [] kind = "ordered" -> convertOrderedList(trimmed, imageMap)
       [] kind = "unordered" -> convertUnorderedList(trimmed, imageMap)
       [] kind = "image" -> convertImage(trimmed, imageMap)
       [] OTHER -> convertParagraph(trimmed, imageMap)

\* blocks.map((block) => this.convertBlock(block))
gutenbergBlocks(blocks, imageMap) ==
  [i \in DOMAIN blocks |-> convertBlock(blocks[i], imageMap)]

\* The rendered post body is a function of the body text and of the image map
\* the converter holds; it is carried as that pair.
convert(markdown, imageMap) ==
  [body |-> removeFrontmatter(markdown), imageMap |-> imageMap]

\* ---------------------------------------------------------------------
\* The vault, the settings and the documents of the model
\* ---------------------------------------------------------------------

\* bounds of the model
MaxInvocations == 2

\* the concurrent invocations the host may have in flight
Procs == {1, 2}

\* the notes of the vault (TFile): in the publishable folder "b", in the sibling
\* folder "bb", a non-markdown file in "b", and a note at the vault root
Files ==
  << [path |-> <<"b","/","n",".","m","d">>, extension |-> <<"m","d">>,
      basename |-> <<"n">>, parent |-> <<"b">>],
     [path |-> <<"b","b","/","n",".","m","d">>, extension |-> <<"m","d">>,
      basename |-> <<"n">>, parent |-> <<"b","b">>],
     [path |-> <<"b","/","n",".","t","x","t">>, extension |-> <<"t","x","t">>,
      basename |-> <<"n">>, parent |-> <<"b">>],
     [path |-> <<"c",".","m","d">>, extension |-> <<"m","d">>,
      basename |-> <<"c">>, parent |-> <<>>] >>

FileIds == DOMAIN Files

\* the image files of the vault (TFile), by path
VaultImages ==
  { [path |-> <<"b","/","a",".","p","n","g">>, extension |-> <<"P","N","G">>,
     name |-> <<"a",".","p","n","g">>],
    [path |-> <<"n",".","b","m","p">>, extension |-> <<"b","m","p">>,
     name |-> <<"n",".","b","m","p">>] }

\* metadataCache.getFirstLinkpathDest: the link "n.bmp" resolves to the root file
LinkDest(linkpath) ==
  IF linkpath = <<"n",".","b","m","p">> THEN <<<<"n",".","b","m","p">>>> ELSE <<>>

\* "hi" with one image, no frontmatter
DocPlain == <<"h","i"," ","!","[","[","a",".","p","n","g","]","]">>

\* no frontmatter; the same image twice, an unsupported type, a missing file
\* and an external URL:  ![](a.png)![[a.png]]![[n.bmp]]![[m.png]]![](http://e)
DocImages ==
  <<"!","[","]","(","a",".","p","n","g",")","!","[","[","a",".","p","n","g","]","]",
    "!","[","[","n",".","b","m","p","]","]","!","[","[","m",".","p","n","g","]","]",
    "!","[","]","(","h","t","t","p",":","/","/","e",")">>

\* ---\ntitle: T\nstatus: future\ndate: 2025\ncategories: [news, Tech]\ntags:\n  - x\n---\nhi
DocFull ==
  <<"-","-","-","\n","t","i","t","l","e",":"," ","T","\n",
    "s","t","a","t","u","s",":"," ","f","u","t","u","r","e","\n",
    "d","a","t","e",":"," ","2","0","2","5","\n",
    "c","a","t","e","g","o","r","i","e","s",":"," ","[","n","e","w","s",","," ","T","e","c","h","]","\n",
    "t","a","g","s",":","\n"," "," ","-"," ","x","\n",
    "-","-","-","\n","h","i">>

\* ---\nwp_post_id: 0\n---\nhi
DocIdZero ==
  <<"-","-","-","\n","w","p","_","p","o","s","t","_","i","d",":"," ","0","\n",
    "-","-","-","\n","h","i">>

\* ---\nstatus: bogus\nwp_post_id: 7\nfoo: bar\n---\nhi
DocIdSeven ==
  <<"-","-","-","\n","s","t","a","t","u","s",":"," ","b","o","g","u","s","\n",
    "w","p","_","p","o","s","t","_","i","d",":"," ","7","\n",
    "f","o","o",":"," ","b","a","r","\n",
    "-","-","-","\n","h","i">>

\* ---\nexcerpt: US$&EU\n---\nhi
DocDollar ==
  <<"-","-","-","\n","e","x","c","e","r","p","t",":"," ","U","S","$","&","E","U","\n",
    "-","-","-","\n","h","i">>

Docs == {DocPlain, DocImages, DocFull, DocIdZero, DocIdSeven, DocDollar}

\* PluginSettings
SettingsConfigured ==
  [siteUrl |-> <<"w">>, username |-> <<"u">>, applicationPassword |-> <<"p">>,
   publishableFolder |-> <<"b","/">>, defaultPostStatus |-> S_private, uploadImages |-> TRUE]

SettingsNoFolder ==
  [siteUrl |-> <<"w">>, username |-> <<"u">>, applicationPassword |-> <<"p">>,
   publishableFolder |-> <<>>, defaultPostStatus |-> S_publish, uploadImages |-> FALSE]

\* DEFAULT_SETTINGS with a folder: the connection is not configured
SettingsUnconfigured ==
  [siteUrl |-> <<>>, username |-> <<>>, applicationPassword |-> <<>>,
   publishableFolder |-> <<"b">>, defaultPostStatus |-> S_draft, uploadImages |-> TRUE]

SettingsChoices == {SettingsConfigured, SettingsNoFolder, SettingsUnconfigured}

\* ---------------------------------------------------------------------
\* State
\* ---------------------------------------------------------------------

VARIABLES
  settings,           \* the plugin's settings object
  disk,               \* vault: the text of every note
  proc,               \* per invocation: position and locals of publishFile/publish
  converterImageMap,  \* MarkdownConverter.imageMap of the Publisher's one converter
  posts,              \* remote: the ids of the posts that exist
  terms,              \* remote: the categories and tags that exist
  nMedia,             \* remote: number of media items uploaded
  nInv,               \* invocations started so far
  lastWrite,          \* per note: what the last write-back recorded
  parallel,           \* whether the host starts a command while another is running
  unit                \* the function under test with its input and outputs, when a
                      \* specification exercises one module on its own

vars == <<settings, disk, proc, converterImageMap, posts, terms, nMedia, nInv, lastWrite,
          parallel, unit>>

\* no function is under test: the plugin runs as a whole
NoUnit == [stage |-> "none"]

NoWrite == [kind |-> "none", id |-> 0]

IdleProc ==
  [pc |-> "idle", via |-> "none", file |-> 0, override |-> <<>>,
   content |-> <<>>, frontmatter |-> EmptyFrontmatter,
   refs |-> <<>>, idx |-> 0, imageMap |-> EmptyFrontmatter, uploads |-> <<>>,
   payload |-> EmptyFrontmatter, kind |-> "none", names |-> <<>>, ids |-> <<>>,
   resolved |-> <<>>,
   post |-> EmptyFrontmatter, updatedContent |-> <<>>, result |-> EmptyFrontmatter,
   calls |-> <<>>, notices |-> <<>>, seen |-> NoWrite, originalStatus |-> <<>>]

Call(op, arg) == [op |-> op, arg |-> arg]

\* ---------------------------------------------------------------------
\* publisher.ts: the synchronous code between two awaits
\* ---------------------------------------------------------------------

\* obsidian's normalizePath on the paths of the model: no leading or trailing "/"
normalizePath(path) ==
  LET keep == {i \in 1..Len(path) : path[i] # "/"}
  IN IF keep = {} THEN <<"/">>
     ELSE SubSeq(path, Min(keep), CHOOSE i \in keep : \A k \in keep : k <= i)

isPublishable(file) ==
  IF settings.publishableFolder = <<>>
  THEN file.extension = <<"m","d">>
  ELSE /\ file.extension = <<"m","d">>
       /\ startsWith(file.path, normalizePath(settings.publishableFolder))

\* !settings.siteUrl || !settings.username || !settings.applicationPassword
notConfigured ==
  \/ settings.siteUrl = <<>>
  \/ settings.username = <<>>
  \/ settings.applicationPassword = <<>>

\* MIME_TYPES[`.${ext}`]: <<>> when the extension is not in the table
MIME_TYPES(ext) ==
  CASE ext = <<"j","p","g">> -> <<"image/jpeg">>
    [] ext = <<"j","p","e","g">> -> <<"image/jpeg">>
    [] ext = <<"p","n","g">> -> <<"image/png">>
    [] ext = <<"g","i","f">> -> <<"image/gif">>
    [] ext = <<"w","e","b","p">> -> <<"image/webp">>
    [] ext = <<"s","v","g">> -> <<"image/svg+xml">>
    [] OTHER -> <<>>

resolveImagePath(file, imagePath) ==
  IF startsWith(imagePath, <<"/">>) THEN normalizePath(Tail(imagePath))
  ELSE IF LinkDest(imagePath) # <<>> THEN LinkDest(imagePath)[1]
  ELSE normalizePath(file.parent \o <<"/">> \o imagePath)

\* vault.getAbstractFileByPath: the image files at that path (at most one)
getAbstractFileByPath(path) == {f \in VaultImages : f.path = path}

\* the image file a reference is uploaded from; {} when the loop skips the
\* reference (external URL, no such file, unsupported type)
imageFileOf(file, ref) ==
  IF startsWith(ref.path, <<"h","t","t","p",":","/","/">>)
     \/ startsWith(ref.path, <<"h","t","t","p","s",":","/","/">>)
  THEN {}
  ELSE {f \in getAbstractFileByPath(resolveImagePath(file, ref.path)) :
          MIME_TYPES(toLowerCase(f.extension)) # <<>>}

\* return to the caller: publishFile shows the success notice
returned(r) ==
  [r EXCEPT !.pc = "returned",
            !.notices = IF /\ r.via = "publishFile"
                           /\ Has(r.result, "success") /\ r.result["success"]
                           /\ r.result["postUrl"] # <<>>
                        THEN Append(@, "Published successfully")
                        ELSE @]

\* a changed catch block: the error is thrown again, no result is returned
catchError_rethrow(r, message) ==
  returned([r EXCEPT !.notices = Append(@, "Publishing failed")])

\* the catch block of publish
catchError(r, message) ==
  returned([r EXCEPT !.notices = Append(@, "Publishing failed"),
                     !.result = [success |-> FALSE, error |-> message]])

\* a changed status line: frontmatter.status || settings.defaultPostStatus
payloadStatus_noOverride(override, frontmatter) ==
  IF Has(frontmatter, "status") THEN frontmatter["status"] ELSE settings.defaultPostStatus

\* const status = overrideStatus ?? frontmatter.status ?? settings.defaultPostStatus
payloadStatus(override, frontmatter) ==
  IF override # <<>> THEN override[1]
  ELSE IF Has(frontmatter, "status") THEN frontmatter["status"]
  ELSE settings.defaultPostStatus

\* a changed date line: if (frontmatter.date) payload.date = frontmatter.date
buildPayload_dateAlways(r, gutenbergContent) ==
  LET fm == r.frontmatter
      status == payloadStatus(r.override, fm)
      base == [title |-> getTitle(fm, Files[r.file].basename),
               content |-> gutenbergContent,
               status |-> status]
      withSlug == IF Has(fm, "slug") /\ Len(trim(fm["slug"])) > 0
                  THEN Put(base, "slug", trim(fm["slug"])) ELSE base
      withExcerpt == IF Has(fm, "excerpt") /\ fm["excerpt"] # <<>>
                     THEN Put(withSlug, "excerpt", fm["excerpt"]) ELSE withSlug
  IN IF Has(fm, "date") /\ fm["date"] # <<>>
     THEN Put(withExcerpt, "date", fm["date"]) ELSE withExcerpt

buildPayload(r, gutenbergContent) ==
  LET fm == r.frontmatter
      status == payloadStatus(r.override, fm)
      base == [title |-> getTitle(fm, Files[r.file].basename),
               content |-> gutenbergContent,
               status |-> status]
      withSlug == IF Has(fm, "slug") /\ Len(trim(fm["slug"])) > 0
                  THEN Put(base, "slug", trim(fm["slug"])) ELSE base
      withExcerpt == IF Has(fm, "excerpt") /\ fm["excerpt"] # <<>>
                     THEN Put(withSlug, "excerpt", fm["excerpt"]) ELSE withSlug
  IN IF Has(fm, "date") /\ fm["date"] # <<>> /\ status = S_future
     THEN Put(withExcerpt, "date", fm["date"]) ELSE withExcerpt

\* if (frontmatter.wp_post_id) updatePost(...) else createPost(...)
submit(r) ==
  IF Has(r.frontmatter, "wp_post_id") /\ r.frontmatter["wp_post_id"] # 0
  THEN [r EXCEPT !.pc = "await_updatePost",
                 !.calls = Append(@, Call("PUT /posts", numberToString(r.frontmatter["wp_post_id"])))]
  ELSE [r EXCEPT !.pc = "await_createPost",
                 !.calls = Append(@, Call("POST /posts", <<>>))]

\* wordpress-client.ts resolveCategoryIds / resolveTagIds: the loop over the
\* names, up to the search request of getOrCreateCategory / getOrCreateTag
resolveNext(r, i) ==
  IF i <= Len(r.names)
  THEN [r EXCEPT !.pc = "await_search", !.idx = i,
                 !.calls = Append(@, Call(IF r.kind = "categories" THEN "GET /categories"
                                          ELSE "GET /tags", r.names[i]))]
  ELSE IF r.kind = "categories"
  THEN LET done == [r EXCEPT !.payload = Put(@, "categories", r.ids)]
       IN IF Has(r.frontmatter, "tags") /\ Len(r.frontmatter["tags"]) > 0
          THEN LET t == [done EXCEPT !.kind = "tags", !.names = r.frontmatter["tags"],
                                     !.ids = <<>>]
               IN [t EXCEPT !.pc = "await_search", !.idx = 1,
                            !.calls = Append(@, Call("GET /tags", t.names[1]))]
          ELSE submit(done)
  ELSE submit([r EXCEPT !.payload = Put(@, "tags", r.ids)])

\* a changed order: the tags are resolved first and the post is submitted after
\* them
afterImages_tagsFirst(r) ==
  LET built == [r EXCEPT !.payload = buildPayload(r, convert(r.content, r.imageMap))]
      fm == r.frontmatter
  IN IF Has(fm, "tags") /\ Len(fm["tags"]) > 0
     THEN resolveNext([built EXCEPT !.kind = "tags", !.names = fm["tags"],
                                    !.ids = <<>>, !.resolved = <<>>], 1)
     ELSE IF Has(fm, "categories") /\ Len(fm["categories"]) > 0
     THEN resolveNext([built EXCEPT !.kind = "categories", !.names = fm["categories"],
                                    !.ids = <<>>, !.resolved = <<>>], 1)
     ELSE submit(built)

\* this.imageMap = map: the converter's map after the call
setImageMap(map) == map

\* a changed order: the body is converted with the map the converter holds,
\* and the map of this publish is set on it afterwards
afterImages_convertFirst(r) ==
  LET built == [r EXCEPT !.payload = buildPayload(r, convert(r.content, converterImageMap))]
      fm == r.frontmatter
  IN IF Has(fm, "categories") /\ Len(fm["categories"]) > 0
     THEN resolveNext([built EXCEPT !.kind = "categories", !.names = fm["categories"],
                                    !.ids = <<>>, !.resolved = <<>>], 1)
     ELSE IF Has(fm, "tags") /\ Len(fm["tags"]) > 0
     THEN resolveNext([built EXCEPT !.kind = "tags", !.names = fm["tags"],
                                    !.ids = <<>>, !.resolved = <<>>], 1)
     ELSE submit(built)

\* publish, from the image map being complete to the next await
afterImages(r) ==
  LET built == [r EXCEPT !.payload =
                  buildPayload(r, convert(r.content, setImageMap(r.imageMap)))]
      fm == r.frontmatter
  IN IF Has(fm, "categories") /\ Len(fm["categories"]) > 0
     THEN resolveNext([built EXCEPT !.kind = "categories", !.names = fm["categories"],
                                    !.ids = <<>>, !.resolved = <<>>], 1)
     ELSE IF Has(fm, "tags") /\ Len(fm["tags"]) > 0
     THEN resolveNext([built EXCEPT !.kind = "tags", !.names = fm["tags"],
                                    !.ids = <<>>, !.resolved = <<>>], 1)
     ELSE submit(built)

\* uploadImages: the loop from reference i to the next await
RECURSIVE uploadNext(_, _)
uploadNext(r, i) ==
  IF i > Len(r.refs) THEN afterImages(r)
  ELSE IF imageFileOf(Files[r.file], r.refs[i]) = {} THEN uploadNext(r, i + 1)
  ELSE [r EXCEPT !.pc = "await_readBinary", !.idx = i,
                 !.calls = Append(@, Call("vault.readBinary", r.refs[i].path))]

\* publish, from the document having been read to the next await
afterRead(r, content) ==
  LET parsed == [r EXCEPT !.content = content, !.frontmatter = parseFrontmatter(content)]
  IN IF settings.uploadImages
     THEN uploadNext([parsed EXCEPT !.refs = extractImageReferences(content)], 1)
     ELSE afterImages(parsed)

\* a changed entry: the document is read before anything is checked
enterPublish_readFirst(r) ==
  [r EXCEPT !.pc = "await_read", !.calls = Append(@, Call("vault.read", Files[r.file].path))]

\* publish, from its call to its first await
enterPublish(r) ==
  IF notConfigured
  THEN returned([r EXCEPT !.result = [success |-> FALSE, error |-> "not configured"]])
  ELSE IF ~isPublishable(Files[r.file])
  THEN returned([r EXCEPT !.result = [success |-> FALSE, error |-> "not in the publishable folder"]])
  ELSE [r EXCEPT !.pc = "await_read", !.calls = Append(@, Call("vault.read", Files[r.file].path))]

\* ---------------------------------------------------------------------
\* The remote side
\* ---------------------------------------------------------------------

Max(S) == CHOOSE x \in S : \A y \in S : y <= x

\* the post with id 7 exists before the first publish
InitialPosts == {7}

\* the category "News" exists before the first publish
InitialTerms == {[kind |-> "categories", name |-> <<"N","e","w","s">>, id |-> 3]}

\* GET /categories?search= and /tags?search= : the terms whose name holds the
\* searched text, whatever the case
searchTerms(kind, name) ==
  {t \in terms : t.kind = kind /\ includes(toLowerCase(t.name), toLowerCase(name))}

\* a changed comparison: the names are compared as written
findMatch_sameCase(existing, name) ==
  {t \in existing : t.name = name}

\* existing.find((t) => t.name.toLowerCase() === name.toLowerCase())
findMatch(existing, name) ==
  {t \in existing : toLowerCase(t.name) = toLowerCase(name)}

\* the permalink the server reports for a post
postLink(id) == <<"/", "?", "p", "=">> \o numberToString(id)

\* the status the server reports: as submitted, or a scheduled post it
\* published at once
reportedStatuses(status) ==
  IF status = S_future THEN {S_future, S_publish} ELSE {status}

\* ---------------------------------------------------------------------
\* Actions: one per resolution of an awaited operation, with the
\* synchronous code that follows it
\* ---------------------------------------------------------------------

\* the settings object after a step that leaves invocation p as r: a command
\* that saved the default status (originalStatus) has set it to draft before
\* its publish, and its finally block puts the saved one back on return
settingsAfter(p, r) ==
  IF r.originalStatus = <<>> THEN settings
  ELSE IF r.pc = "returned"
  THEN [settings EXCEPT !.defaultPostStatus = r.originalStatus[1]]
  ELSE IF proc[p].pc \in {"idle", "returned"}
  THEN [settings EXCEPT !.defaultPostStatus = S_draft]
  ELSE settings

\* setImageMap happens in the step that builds the payload
Step(p, r) ==
  /\ proc' = [proc EXCEPT ![p] = r]
  /\ settings' = settingsAfter(p, r)
  /\ converterImageMap' = IF ~Has(proc[p].payload, "title") /\ Has(r.payload, "title")
                          THEN r.imageMap
                          ELSE converterImageMap

\* the settings and the text of note 1 a run starts from
Scenarios ==
  {<<SettingsConfigured, d>> : d \in Docs}
  \cup {<<SettingsNoFolder, DocFull>>, <<SettingsUnconfigured, DocPlain>>}

InitWith(sc, par) ==
  /\ settings = sc[1]
  /\ disk = [f \in FileIds |-> IF f = 1 THEN sc[2] ELSE DocPlain]
  /\ proc = [p \in Procs |-> IdleProc]
  /\ converterImageMap = EmptyFrontmatter
  /\ posts = InitialPosts
  /\ terms = InitialTerms
  /\ nMedia = 0
  /\ nInv = 0
  /\ lastWrite = [f \in FileIds |-> NoWrite]
  /\ parallel = par

\* the commands are run one after the other
Init == unit = NoUnit /\ \E sc \in Scenarios : InitWith(sc, FALSE)

\* a command may start on invocation p: when the host runs the commands one at a
\* time, only once the previous one has returned
Invocable(p) ==
  /\ proc[p].pc \in {"idle", "returned"}
  /\ nInv < MaxInvocations
  /\ parallel \/ (p = 1 /\ \A q \in Procs : proc[q].pc \in {"idle", "returned"})

\* main.ts publishFile(file, overrideStatus), up to the first await of publish
publishFile(p, f, ov) ==
  /\ Invocable(p)
  /\ nInv' = nInv + 1
  /\ LET r == [IdleProc EXCEPT !.via = "publishFile", !.file = f, !.override = ov]
     IN IF ~isPublishable(Files[f])
        THEN Step(p, [r EXCEPT !.pc = "returned", !.notices = <<"Cannot publish">>])
        ELSE Step(p, enterPublish([r EXCEPT !.notices = <<"Publishing">>]))
  /\ UNCHANGED <<disk, posts, terms, nMedia, lastWrite, parallel, unit>>

\* main.ts publishCurrentNote and the two menu items
PublishCurrentNote(p, f) == publishFile(p, f, <<S_publish>>)

\* main.ts publishCurrentNoteAsDraft
PublishCurrentNoteAsDraft(p, f) == publishFile(p, f, <<S_draft>>)

\* the other copy of main.ts: publishCurrentNoteAsDraft saves the default
\* status, sets it to draft, awaits publishFile(file) and restores it
publishCurrentNoteAsDraft_bySetting(p, f) ==
  /\ Invocable(p)
  /\ nInv' = nInv + 1
  /\ LET r == [IdleProc EXCEPT !.via = "publishFile", !.file = f,
                               !.originalStatus = <<settings.defaultPostStatus>>]
     IN IF ~isPublishable(Files[f])
        THEN Step(p, [r EXCEPT !.pc = "returned", !.notices = <<"Cannot publish">>])
        ELSE Step(p, enterPublish([r EXCEPT !.notices = <<"Publishing">>]))
  /\ UNCHANGED <<disk, posts, terms, nMedia, lastWrite, parallel, unit>>

\* the other copy of main.ts: publishCurrentNote calls publishFile(file)
publishCurrentNote_noOverride(p, f) == publishFile(p, f, <<>>)

\* Publisher.publish(file, overrideStatus) called directly
Publish(p, f, ov) ==
  /\ Invocable(p)
  /\ nInv' = nInv + 1
  /\ Step(p, enterPublish([IdleProc EXCEPT !.via = "publish", !.file = f, !.override = ov]))
  /\ UNCHANGED <<disk, posts, terms, nMedia, lastWrite, parallel, unit>>

ReadDone(p) ==
  /\ proc[p].pc = "await_read"
  /\ Step(p, afterRead([proc[p] EXCEPT !.seen = lastWrite[proc[p].file]], disk[proc[p].file]))
  /\ UNCHANGED <<disk, posts, terms, nMedia, nInv, lastWrite, parallel, unit>>

ReadFail(p) ==
  /\ proc[p].pc = "await_read"
  /\ Step(p, catchError(proc[p], "read failed"))
  /\ UNCHANGED <<disk, posts, terms, nMedia, nInv, lastWrite, parallel, unit>>

\* uploadImages: the image bytes are read, uploadMedia is issued
ReadBinaryDone(p) ==
  /\ proc[p].pc = "await_readBinary"
  /\ Step(p, [proc[p] EXCEPT !.pc = "await_uploadMedia",
                             !.calls = Append(@, Call("POST /media", proc[p].refs[proc[p].idx].path))])
  /\ UNCHANGED <<disk, posts, terms, nMedia, nInv, lastWrite, parallel, unit>>

\* a changed catch: a failed image ends the publish
skipImage_abort(r) == catchError(r, "image failed")

\* the catch of the loop body: the reference is skipped
skipImage(r) ==
  uploadNext([r EXCEPT !.uploads = Append(@, [path |-> r.refs[r.idx].path, ok |-> FALSE,
                                              url |-> <<>>])],
             r.idx + 1)

ReadBinaryFail(p) ==
  /\ proc[p].pc = "await_readBinary"
  /\ Step(p, skipImage(proc[p]))
  /\ UNCHANGED <<disk, posts, terms, nMedia, nInv, lastWrite, parallel, unit>>

UploadDone(p) ==
  /\ proc[p].pc = "await_uploadMedia"
  /\ nMedia' = nMedia + 1
  /\ LET r == proc[p]
         ref == r.refs[r.idx]
         media == [id |-> nMedia + 1, source_url |-> <<"/", "m">> \o numberToString(nMedia + 1)]
         set == [r EXCEPT !.imageMap = Put(@, ref.path, [localPath |-> ref.path,
                                                         wordpressUrl |-> media.source_url,
                                                         mediaId |-> media.id]),
                          !.uploads = Append(@, [path |-> ref.path, ok |-> TRUE,
                                                 url |-> media.source_url])]
     IN Step(p, uploadNext(set, r.idx + 1))
  /\ UNCHANGED <<disk, posts, terms, nInv, lastWrite, parallel, unit>>

UploadFail(p) ==
  /\ proc[p].pc = "await_uploadMedia"
  /\ Step(p, skipImage(proc[p]))
  /\ UNCHANGED <<disk, posts, terms, nMedia, nInv, lastWrite, parallel, unit>>

\* a changed catch: the failed name keeps a place in the id list
dropName_keepsPlace(r) ==
  resolveNext([r EXCEPT !.ids = Append(@, 0),
                        !.resolved = Append(@, [kind |-> r.kind, name |-> r.names[r.idx],
                                                ok |-> FALSE, id |-> 0])],
              r.idx + 1)

\* the catch of resolveCategoryIds / resolveTagIds: the name is dropped
dropName(r) ==
  resolveNext([r EXCEPT !.resolved = Append(@, [kind |-> r.kind, name |-> r.names[r.idx],
                                                ok |-> FALSE, id |-> 0])],
              r.idx + 1)

\* ids.push(id)
pushId(r, id) ==
  resolveNext([r EXCEPT !.ids = Append(@, id),
                        !.resolved = Append(@, [kind |-> r.kind, name |-> r.names[r.idx],
                                                ok |-> TRUE, id |-> id])],
              r.idx + 1)

\* getOrCreateCategory / getOrCreateTag after the search answered
SearchDone(p) ==
  /\ proc[p].pc = "await_search"
  /\ LET r == proc[p]
         name == r.names[r.idx]
         match == findMatch(searchTerms(r.kind, name), name)
     IN IF match # {}
        THEN \E t \in match : Step(p, pushId(r, t.id))
        ELSE Step(p, [r EXCEPT !.pc = "await_createTerm",
                               !.calls = Append(@, Call(IF r.kind = "categories"
                                                        THEN "POST /categories"
                                                        ELSE "POST /tags", name))])
  /\ UNCHANGED <<disk, posts, terms, nMedia, nInv, lastWrite, parallel, unit>>

SearchFail(p) ==
  /\ proc[p].pc = "await_search"
  /\ Step(p, dropName(proc[p]))
  /\ UNCHANGED <<disk, posts, terms, nMedia, nInv, lastWrite, parallel, unit>>

CreateTermDone(p) ==
  /\ proc[p].pc = "await_createTerm"
  /\ LET r == proc[p]
         id == Max({t.id : t \in terms} \cup {0}) + 1
     IN /\ terms' = terms \cup {[kind |-> r.kind, name |-> r.names[r.idx], id |-> id]}
        /\ Step(p, pushId(r, id))
  /\ UNCHANGED <<disk, posts, nMedia, nInv, lastWrite, parallel, unit>>

CreateTermFail(p) ==
  /\ proc[p].pc = "await_createTerm"
  /\ Step(p, dropName(proc[p]))
  /\ UNCHANGED <<disk, posts, terms, nMedia, nInv, lastWrite, parallel, unit>>

\* a changed write-back: the id of the created post is left out
afterCreatePost_noId(r, post) ==
  [r EXCEPT !.post = post,
            !.updatedContent = updateFrontmatter(r.content,
               [wp_post_url |-> post.link, status |-> post.status]),
            !.pc = "await_modify",
            !.calls = Append(@, Call("vault.modify", Files[r.file].path))]

\* publish after createPost answered: the frontmatter update is computed and
\* vault.modify is issued
afterCreatePost(r, post) ==
  [r EXCEPT !.post = post,
            !.updatedContent = updateFrontmatter(r.content,
               [wp_post_id |-> post.id, wp_post_url |-> post.link, status |-> post.status]),
            !.pc = "await_modify",
            !.calls = Append(@, Call("vault.modify", Files[r.file].path))]

\* publish after updatePost answered
afterUpdatePost(r, post) ==
  [r EXCEPT !.post = post,
            !.updatedContent = updateFrontmatter(r.content,
               [wp_post_url |-> post.link, status |-> post.status]),
            !.pc = "await_modify",
            !.calls = Append(@, Call("vault.modify", Files[r.file].path))]

CreatePostDone(p) ==
  /\ proc[p].pc = "await_createPost"
  /\ LET r == proc[p]
         id == Max(posts \cup {0}) + 1
     IN /\ posts' = posts \cup {id}
        /\ \E st \in reportedStatuses(r.payload["status"]) :
             Step(p, afterCreatePost(r, [id |-> id, link |-> postLink(id), status |-> st,
                                         title |-> r.payload["title"]]))
  /\ UNCHANGED <<disk, terms, nMedia, nInv, lastWrite, parallel, unit>>

UpdatePostDone(p) ==
  /\ proc[p].pc = "await_updatePost"
  /\ proc[p].frontmatter["wp_post_id"] \in posts
  /\ LET r == proc[p]
         id == r.frontmatter["wp_post_id"]
     IN \E st \in reportedStatuses(r.payload["status"]) :
          Step(p, afterUpdatePost(r, [id |-> id, link |-> postLink(id), status |-> st,
                                      title |-> r.payload["title"]]))
  /\ UNCHANGED <<disk, posts, terms, nMedia, nInv, lastWrite, parallel, unit>>

\* a changed order: the status is written to the document before the request
\* has answered, and stays there when the request fails
PostFail_wroteFirst(p) ==
  /\ proc[p].pc \in {"await_createPost", "await_updatePost"}
  /\ disk' = [disk EXCEPT ![proc[p].file] =
                 updateFrontmatter(proc[p].content, [status |-> proc[p].payload["status"]])]
  /\ Step(p, catchError(proc[p], "request failed"))
  /\ UNCHANGED <<posts, terms, nMedia, nInv, lastWrite, parallel, unit>>

\* a changed catch: a failed create or update request is issued again
PostFail_retry(p) ==
  /\ proc[p].pc \in {"await_createPost", "await_updatePost"}
  /\ Step(p, submit(proc[p]))
  /\ UNCHANGED <<disk, posts, terms, nMedia, nInv, lastWrite, parallel, unit>>

PostFail(p) ==
  /\ proc[p].pc \in {"await_createPost", "await_updatePost"}
  /\ Step(p, catchError(proc[p], "request failed"))
  /\ UNCHANGED <<disk, posts, terms, nMedia, nInv, lastWrite, parallel, unit>>

\* vault.modify answered: the notice is shown and the result returned
ModifyDone(p) ==
  /\ proc[p].pc = "await_modify"
  /\ LET r == proc[p]
         created == r.calls[Len(r.calls) - 1].op = "POST /posts"
     IN /\ disk' = [disk EXCEPT ![r.file] = r.updatedContent]
        /\ lastWrite' = [lastWrite EXCEPT ![r.file] =
                           [kind |-> IF created THEN "create" ELSE "update", id |-> r.post.id]]
        /\ Step(p, returned([r EXCEPT !.notices = Append(@, IF created THEN "Published"
                                                            ELSE "Updated post"),
                                      !.result = [success |-> TRUE, postId |-> r.post.id,
                                                  postUrl |-> r.post.link]]))
  /\ UNCHANGED <<posts, terms, nMedia, nInv, parallel, unit>>

ModifyFail(p) ==
  /\ proc[p].pc = "await_modify"
  /\ Step(p, catchError(proc[p], "write failed"))
  /\ UNCHANGED <<disk, posts, terms, nMedia, nInv, lastWrite, parallel, unit>>

Next ==
  \E p \in Procs :
    \/ \E f \in FileIds : PublishCurrentNote(p, f)
    \/ \E f \in FileIds : PublishCurrentNoteAsDraft(p, f)
    \/ \E f \in FileIds : Publish(p, f, <<>>)
    \/ ReadDone(p)
    \/ ReadFail(p)
    \/ ReadBinaryDone(p)
    \/ ReadBinaryFail(p)
    \/ UploadDone(p)
    \/ UploadFail(p)
    \/ SearchDone(p)
    \/ SearchFail(p)
    \/ CreateTermDone(p)
    \/ CreateTermFail(p)
    \/ CreatePostDone(p)
    \/ UpdatePostDone(p)
    \/ PostFail(p)
    \/ ModifyDone(p)
    \/ ModifyFail(p)

Spec == Init /\ [][Next]_vars

\* ---\ntags: [x]\n---\n![[a.png]] : one tag to resolve, one image to upload
DocRace ==
  <<"-","-","-","\n","t","a","g","s",":"," ","[","x","]","\n","-","-","-","\n",
    "!","[","[","a",".","p","n","g","]","]">>

\* the note two commands are started on while one is still running: a note that
\* was never published, or one with a recorded id
RaceScenarios == {<<SettingsConfigured, DocRace>>, <<SettingsConfigured, DocIdSeven>>}

\* the note both commands are run on
RaceFiles == {1}

\* the host does not wait for a running command before it starts the next
InitRace == unit = NoUnit /\ \E sc \in RaceScenarios : InitWith(sc, TRUE)

\* the publish command run twice on one note, the second while the first is
\* still awaiting
NextRace ==
  \E p \in Procs :
    \/ \E f \in RaceFiles : PublishCurrentNote(p, f)
    \/ ReadDone(p)
    \/ ReadFail(p)
    \/ ReadBinaryDone(p)
    \/ ReadBinaryFail(p)
    \/ UploadDone(p)
    \/ UploadFail(p)
    \/ SearchDone(p)
    \/ SearchFail(p)
    \/ CreateTermDone(p)
    \/ CreateTermFail(p)
    \/ CreatePostDone(p)
    \/ UpdatePostDone(p)
    \/ PostFail(p)
    \/ ModifyDone(p)
    \/ ModifyFail(p)

SpecRace == InitRace /\ [][NextRace]_vars

\* the two commands of the other copy of main.ts started while the other is
\* running: publish as draft on note 1, publish on note 2
InitDraft == unit = NoUnit /\ \E sc \in RaceScenarios : InitWith(sc, TRUE)

NextDraft ==
  \/ publishCurrentNoteAsDraft_bySetting(1, 1)
  \/ publishCurrentNote_noOverride(2, 2)
  \/ \E p \in Procs :
       \/ ReadDone(p)
       \/ ReadFail(p)
       \/ ReadBinaryDone(p)
       \/ ReadBinaryFail(p)
       \/ UploadDone(p)
       \/ UploadFail(p)
       \/ SearchDone(p)
       \/ SearchFail(p)
       \/ CreateTermDone(p)
       \/ CreateTermFail(p)
       \/ CreatePostDone(p)
       \/ UpdatePostDone(p)
       \/ PostFail(p)
       \/ ModifyDone(p)
       \/ ModifyFail(p)

SpecDraft == InitDraft /\ [][NextDraft]_vars

\* how many times the note is edited while the command runs
MaxEdits == 1

\* no function is under test: the edits made to the note are counted
InitEdit ==
  /\ unit = [stage |-> "edits", n |-> 0]
  /\ \E sc \in RaceScenarios : InitWith(sc, FALSE)

\* the note is edited in the editor while publish awaits: a character is
\* typed at the end of its body
EditNote(f) ==
  /\ \E p \in Procs : proc[p].file = f /\ proc[p].pc \notin {"idle", "returned"}
  /\ unit.n < MaxEdits
  /\ unit' = [unit EXCEPT !.n = unit.n + 1]
  /\ disk' = [disk EXCEPT ![f] = @ \o <<"!">>]
  /\ UNCHANGED <<settings, proc, converterImageMap, posts, terms, nMedia, nInv,
                 lastWrite, parallel>>

\* one publish command on note 1, and the editor
NextEdit ==
  \/ EditNote(1)
  \/ \E p \in Procs :
       \/ \E f \in RaceFiles : PublishCurrentNote(p, f)
       \/ ReadDone(p)
       \/ ReadFail(p)
       \/ ReadBinaryDone(p)
       \/ ReadBinaryFail(p)
       \/ UploadDone(p)
       \/ UploadFail(p)
       \/ SearchDone(p)
       \/ SearchFail(p)
       \/ CreateTermDone(p)
       \/ CreateTermFail(p)
       \/ CreatePostDone(p)
       \/ UpdatePostDone(p)
       \/ PostFail(p)
       \/ ModifyDone(p)
       \/ ModifyFail(p)

SpecEdit == InitEdit /\ [][NextEdit]_vars

\* two commands started on different notes while the other is running: publish
\* on note 1, publish as draft on note 2
InitPair == unit = NoUnit /\ \E sc \in RaceScenarios : InitWith(sc, TRUE)

NextPair ==
  \/ PublishCurrentNote(1, 1)
  \/ PublishCurrentNoteAsDraft(2, 2)
  \/ \E p \in Procs :
       \/ ReadDone(p)
       \/ ReadFail(p)
       \/ ReadBinaryDone(p)
       \/ ReadBinaryFail(p)
       \/ UploadDone(p)
       \/ UploadFail(p)
       \/ SearchDone(p)
       \/ SearchFail(p)
       \/ CreateTermDone(p)
       \/ CreateTermFail(p)
       \/ CreatePostDone(p)
       \/ UpdatePostDone(p)
       \/ PostFail(p)
       \/ ModifyDone(p)
       \/ ModifyFail(p)

SpecPair == InitPair /\ [][NextPair]_vars

\* ---------------------------------------------------------------------
\* The frontmatter codec on its own: parseFrontmatter, generateYaml and
\* updateFrontmatter applied to metadata sets and documents
\* ---------------------------------------------------------------------

Restrict(f, D) == [k \in D |-> f[k]]

\* the keys of PostFrontmatter
FrontmatterKeys ==
  {"title", "slug", "status", "excerpt", "date", "categories", "tags", "wp_post_id",
   "wp_post_url"}

\* a PostFrontmatter with every field defined
FullFrontmatter(title, id) ==
  [title |-> title, slug |-> <<"s">>, status |-> S_draft, excerpt |-> <<"e">>,
   date |-> <<"2","0","2","5">>, categories |-> << <<"a">>, <<"b"," ","c">> >>,
   tags |-> << <<"x">> >>, wp_post_id |-> id, wp_post_url |-> postLink(id)]

\* the titles and ids of the metadata sets: a plain title, one with a double
\* quote, the ids 0 and 7
MetaTitles == {<<"T">>, <<"a","\"","b">>}

MetaIds == {0, 7}

\* the codec's locals: the metadata set or document it is given, and what the
\* functions returned
CodecUnit ==
  [stage |-> "none", meta |-> EmptyFrontmatter, doc |-> <<>>, clean |-> <<>>,
   kind |-> "none", partial |-> EmptyFrontmatter, yaml |-> <<>>,
   parsed |-> EmptyFrontmatter, once |-> <<>>, twice |-> <<>>]

\* `---\n${yaml}---` : the block updateFrontmatter writes around the yaml
wrapYaml(yaml) == FrontmatterOpen \o yaml \o <<"-","-","-">>

\* generateYaml(meta)
Serialize ==
  /\ unit.stage = "meta"
  /\ unit' = [unit EXCEPT !.stage = "serialized", !.yaml = generateYaml(unit.meta)]
  /\ UNCHANGED <<settings, disk, proc, converterImageMap, posts, terms, nMedia, nInv,
                 lastWrite, parallel>>

\* parseFrontmatter of the block just generated
ParseBack ==
  /\ unit.stage = "serialized"
  /\ unit' = [unit EXCEPT !.stage = "roundtrip",
                          !.parsed = parseFrontmatter(wrapYaml(unit.yaml))]
  /\ UNCHANGED <<settings, disk, proc, converterImageMap, posts, terms, nMedia, nInv,
                 lastWrite, parallel>>

\* the fields a frontmatter block is written from, each with its lines
GoodFields ==
  << << <<"t","i","t","l","e",":"," ","T">> >>,
     << <<"s","t","a","t","u","s",":"," ","d","r","a","f","t">> >>,
     << <<"w","p","_","p","o","s","t","_","i","d",":"," ","7">> >>,
     << <<"c","a","t","e","g","o","r","i","e","s",":">>,
        <<" "," ","-"," ","a">> >>,
     << <<"t","a","g","s",":"," ","[","x",","," ","y","]">> >> >>

\* fields whose value cannot be stored: a status outside VALID_STATUSES, an id
\* parseInt gives NaN for
BadFields ==
  { << <<"s","t","a","t","u","s",":"," ","b","o","g","u","s">> >>,
    << <<"w","p","_","p","o","s","t","_","i","d",":"," ","a","b","c">> >>,
    << <<"s","t","a","t","u","s",":"," ","D","r","a","f","t">> >> }

\* the key each of GoodFields sets, and the value parseFrontmatter is to give it
GoodKeys == <<"title", "status", "wp_post_id", "categories", "tags">>

GoodValues ==
  [title |-> <<"T">>, status |-> S_draft, wp_post_id |-> 7,
   categories |-> << <<"a">> >>, tags |-> << <<"x">>, <<"y">> >>]

RECURSIVE flatten(_)
flatten(groups) ==
  IF Len(groups) = 0 THEN <<>> ELSE groups[1] \o flatten(Tail(groups))

\* a document whose frontmatter block has the lines of these fields
codecDoc(fields) ==
  FrontmatterOpen \o join(flatten(fields), <<"\n">>) \o FrontmatterClose
    \o <<"\n", "h", "i">>

\* documents with no frontmatter block
AbsentDocs == {<<>>, <<"h","i">>, DocPlain}

\* documents whose block is not closed, or does not open on the first line:
\*   ---\ntitle: T\nhi      ---title: T\n---      hi\n---\ntitle: T\n---
MalformedDocs ==
  { <<"-","-","-","\n","t","i","t","l","e",":"," ","T","\n","h","i">>,
    <<"-","-","-","t","i","t","l","e",":"," ","T","\n","-","-","-">>,
    <<"h","i","\n","-","-","-","\n","t","i","t","l","e",":"," ","T","\n","-","-","-">> }

\* the documents updateFrontmatter is given
UpdateDocs == {<<"h","i">>, DocPlain, DocFull, DocIdSeven, DocDollar, DocRace}

\* the keys of the partial sets updateFrontmatter is given
PartialKeys == {"title", "status", "tags", "wp_post_id", "wp_post_url"}

\* parseFrontmatter(doc)
Parse ==
  /\ unit.stage = "doc"
  /\ unit' = [unit EXCEPT !.stage = "parsed", !.parsed = parseFrontmatter(unit.doc)]
  /\ UNCHANGED <<settings, disk, proc, converterImageMap, posts, terms, nMedia, nInv,
                 lastWrite, parallel>>

\* updateFrontmatter(doc, partial)
Update ==
  /\ unit.stage = "update"
  /\ unit' = [unit EXCEPT !.stage = "updated",
                          !.once = updateFrontmatter(unit.doc, unit.partial)]
  /\ UNCHANGED <<settings, disk, proc, converterImageMap, posts, terms, nMedia, nInv,
                 lastWrite, parallel>>

\* updateFrontmatter(updateFrontmatter(doc, partial), partial)
UpdateAgain ==
  /\ unit.stage = "updated"
  /\ unit' = [unit EXCEPT !.stage = "updatedTwice",
                          !.twice = updateFrontmatter(unit.once, unit.partial)]
  /\ UNCHANGED <<settings, disk, proc, converterImageMap, posts, terms, nMedia, nInv,
                 lastWrite, parallel>>

\* the plugin is loaded and no command is run
PluginIdle == InitWith(<<SettingsConfigured, DocPlain>>, FALSE)

\* a metadata set to serialize
InitMeta ==
  \E D \in SUBSET FrontmatterKeys, title \in MetaTitles, id \in MetaIds,
     E \in SUBSET {"categories", "tags"} :
    unit = [CodecUnit EXCEPT
              !.stage = "meta",
              !.meta = Restrict([k \in FrontmatterKeys |->
                                   IF k \in E THEN <<>> ELSE FullFrontmatter(title, id)[k]], D)]

\* a document to parse: a block of well-formed fields, with or without one
\* field that cannot be stored; or a document without a block
InitDoc ==
  \/ \E I \in SUBSET DOMAIN GoodFields :
        LET good == Pick(GoodFields, I)
            meta == Restrict(GoodValues, {GoodKeys[i] : i \in I})
        IN \/ unit = [CodecUnit EXCEPT !.stage = "doc", !.kind = "wellformed", !.meta = meta,
                                       !.doc = codecDoc(good), !.clean = codecDoc(good)]
           \/ \E bad \in BadFields, k \in 0..Len(good) :
                unit = [CodecUnit EXCEPT
                          !.stage = "doc", !.kind = "uncoercible", !.meta = meta,
                          !.doc = codecDoc(SubSeq(good, 1, k) \o <<bad>>
                                            \o SubSeq(good, k + 1, Len(good))),
                          !.clean = codecDoc(good)]
  \/ \E d \in AbsentDocs :
        unit = [CodecUnit EXCEPT !.stage = "doc", !.kind = "absent", !.doc = d, !.clean = d]
  \/ \E d \in MalformedDocs :
        unit = [CodecUnit EXCEPT !.stage = "doc", !.kind = "malformed", !.doc = d,
                                 !.clean = d]

\* a document and a partial metadata set to update it with
InitUpdate ==
  \E d \in UpdateDocs, D \in SUBSET PartialKeys :
    unit = [CodecUnit EXCEPT
              !.stage = "update", !.doc = d,
              !.partial = Restrict([FullFrontmatter(<<"T">>, 9) EXCEPT !.status = S_publish], D)]

InitCodec == PluginIdle /\ (InitMeta \/ InitDoc \/ InitUpdate)

NextCodec == Serialize \/ ParseBack \/ Parse \/ Update \/ UpdateAgain

SpecCodec == InitCodec /\ [][NextCodec]_vars

\* ---------------------------------------------------------------------
\* The converter on its own: splitIntoBlocks and convertBlock applied to
\* bodies of a few lines
\* ---------------------------------------------------------------------

\* the number of lines of a body
MaxLines == 3

\* the lines a body is written from: a code fence, a callout header, a quote
\* line, a heading, a rule, list items, images on their own line, a blank line,
\* paragraph text, an indented line, text with images in it
LineKinds ==
  { <<Backquote,Backquote,Backquote>>,
    <<">"," ","[","!","w","a","r","n","i","n","g","]","-"," ","C","a","r","e","f","u","l">>,
    <<">"," ","W","a","t","c","h"," ","o","u","t">>,
    <<"#"," ","H">>,
    <<"-","-","-">>,
    <<"-"," ","a">>,
    <<"1","."," ","b">>,
    <<"!","[","t","]","(","a",".","p","n","g",")">>,
    <<"!","[","[","a",".","p","n","g","|","t","]","]">>,
    <<>>,
    <<"W","a","t","c","h"," ","o","u","t">>,
    <<" "," ","c">>,
    <<"x"," ","!","[","[","a",".","p","n","g","]","]"," ","!","[","]","(","n",".","b","m","p",")">>,
    <<"x"," ","!","[","[","a",".","p","n","g","|","t","]","]">> }

\* the converter's locals: the document, the image map set on the converter,
\* and what the functions returned
ConvertUnit ==
  [stage |-> "none", doc |-> <<>>, imageMap |-> EmptyFrontmatter, body |-> <<>>,
   blocks |-> <<>>, html |-> <<>>]

\* the image map after a.png was uploaded
UploadedMap ==
  Put(EmptyFrontmatter, <<"a",".","p","n","g">>,
      [localPath |-> <<"a",".","p","n","g">>, wordpressUrl |-> <<"/","m","1">>, mediaId |-> 1])

InitConvert ==
  /\ PluginIdle
  /\ \E n \in 1..MaxLines, uploaded \in BOOLEAN :
       \E ls \in [1..n -> LineKinds] :
         unit = [ConvertUnit EXCEPT
                   !.stage = "doc", !.doc = join(ls, <<"\n">>),
                   !.imageMap = IF uploaded THEN UploadedMap ELSE EmptyFrontmatter]

\* convert: removeFrontmatter and splitIntoBlocks
Segment ==
  /\ unit.stage = "doc"
  /\ unit' = [unit EXCEPT !.stage = "segmented",
                          !.body = removeFrontmatter(unit.doc),
                          !.blocks = splitIntoBlocks(removeFrontmatter(unit.doc))]
  /\ UNCHANGED <<settings, disk, proc, converterImageMap, posts, terms, nMedia, nInv,
                 lastWrite, parallel>>

\* convert: blocks.map(convertBlock)
Render ==
  /\ unit.stage = "segmented"
  /\ unit' = [unit EXCEPT !.stage = "rendered",
                          !.html = gutenbergBlocks(unit.blocks, unit.imageMap)]
  /\ UNCHANGED <<settings, disk, proc, converterImageMap, posts, terms, nMedia, nInv,
                 lastWrite, parallel>>

NextConvert == Segment \/ Render

SpecConvert == InitConvert /\ [][NextConvert]_vars

\* ---------------------------------------------------------------------
\* The segmenter line by line: the loop of splitIntoBlocks with its locals
\* after every line, then the blocks returned and their rendering
\* ---------------------------------------------------------------------

\* the lines a body is fed from: a code fence, a callout header, a quote line,
\* a blank line, text, the two image syntaxes alone on a line, and lines that
\* begin with an image and end with one with text or another image in them
FedLineKinds ==
  { <<Backquote,Backquote,Backquote>>,
    <<">"," ","[","!","n","o","t","e","]"," ","T">>,
    <<">"," ","q">>,
    <<>>,
    <<"x">>,
    <<"!","[","t","]","(","a",".","p","n","g",")">>,
    <<"!","[","[","a",".","p","n","g","]","]">>,
    <<"!","[","t","]","(","a",".","p","n","g",")"," ","x"," ","!","[","]","(","n",".","b","m","p",")">>,
    <<"!","[","[","a",".","p","n","g","]","]"," ","x"," ","!","[","[","n",".","b","m","p","]","]">>,
    <<"!","[","[","a",".","p","n","g","]","]"," ","!","[","t","]","(","n",".","b","m","p",")">> }

\* let blocks, currentBlock, inCodeBlock, inCallout at the top of splitIntoBlocks
LoopStart ==
  [blocks |-> <<>>, currentBlock |-> <<>>, inCodeBlock |-> FALSE, inCallout |-> FALSE]

\* the lines, the index of the next one, the locals before and after the line
\* fed last, and what splitIntoBlocks and convert returned
SegmentUnit ==
  [stage |-> "none", doc |-> <<>>, lines |-> <<>>, i |-> 1,
   before |-> LoopStart, st |-> LoopStart,
   imageMap |-> EmptyFrontmatter, blocks |-> <<>>, html |-> <<>>]

InitFeed ==
  /\ PluginIdle
  /\ \E n \in 1..MaxLines :
       \E ls \in [1..n -> FedLineKinds] :
         unit = [SegmentUnit EXCEPT !.stage = "feeding", !.lines = ls,
                                    !.doc = join(ls, <<"\n">>),
                                    !.imageMap = UploadedMap]

\* for (let i = 0; i < lines.length; i++): one iteration
FeedLine ==
  /\ unit.stage = "feeding"
  /\ unit.i <= Len(unit.lines)
  /\ unit' = [unit EXCEPT !.before = unit.st,
                          !.st = splitLine(unit.st, unit.lines[unit.i]),
                          !.i = unit.i + 1]
  /\ UNCHANGED <<settings, disk, proc, converterImageMap, posts, terms, nMedia, nInv,
                 lastWrite, parallel>>

\* after the loop: the last block is pushed, blank blocks are filtered out
EndOfLines ==
  /\ unit.stage = "feeding"
  /\ unit.i > Len(unit.lines)
  /\ unit' = [unit EXCEPT !.stage = "segmented",
                          !.blocks = splitIntoBlocks(unit.doc)]
  /\ UNCHANGED <<settings, disk, proc, converterImageMap, posts, terms, nMedia, nInv,
                 lastWrite, parallel>>

\* convert: blocks.map(convertBlock)
ConvertBlocks ==
  /\ unit.stage = "segmented"
  /\ unit' = [unit EXCEPT !.stage = "rendered",
                          !.html = gutenbergBlocks(unit.blocks, unit.imageMap)]
  /\ UNCHANGED <<settings, disk, proc, converterImageMap, posts, terms, nMedia, nInv,
                 lastWrite, parallel>>

NextFeed == FeedLine \/ EndOfLines \/ ConvertBlocks

SpecFeed == InitFeed /\ [][NextFeed]_vars

\* ---------------------------------------------------------------------
\* Properties
\* ---------------------------------------------------------------------

\* invocation p called Publisher.publish
Invoked(p) ==
  \/ proc[p].via = "publish"
  \/ proc[p].via = "publishFile" /\ proc[p].notices[1] = "Publishing"

\* the positions of the calls of r with one of the operations ops
CallsAt(r, ops) == {i \in DOMAIN r.calls : r.calls[i].op \in ops}

PostOps == {"POST /posts", "PUT /posts"}

ImageOps == {"vault.readBinary", "POST /media"}

TermOps == {"GET /categories", "GET /tags", "POST /categories", "POST /tags"}

\* publish reached the create or update request
Submitted(r) == CallsAt(r, PostOps) # {}

\* publish returned a failure
Failed(r) == r.pc = "returned" /\ Has(r.result, "success") /\ ~r.result["success"]

\* publish returned a success
Succeeded(r) == r.pc = "returned" /\ Has(r.result, "success") /\ r.result["success"]

\* C1: a publish of a document without wp_post_id issues a create and the
\* write-back leaves the returned id in the document's frontmatter; a publish
\* that reads the document after that write-back issues an update addressed to
\* that id and no create.
C1_CreateThenUpdate ==
  \A p \in Procs :
    LET r == proc[p]
    IN /\ (Submitted(r) /\ ~Has(r.frontmatter, "wp_post_id"))
            => CallsAt(r, {"POST /posts"}) # {}
       /\ (Succeeded(r) /\ CallsAt(r, {"POST /posts"}) # {})
            => LET fm == parseFrontmatter(disk[r.file])
               IN Has(fm, "wp_post_id") /\ fm["wp_post_id"] = r.result["postId"]
       /\ (Submitted(r) /\ r.seen.kind = "create")
            => /\ CallsAt(r, {"POST /posts"}) = {}
               /\ \E i \in CallsAt(r, {"PUT /posts"}) :
                    r.calls[i].arg = numberToString(r.seen.id)

\* C2: a publish that reaches the submission issues exactly one request: an
\* update of the recorded post when the parsed frontmatter has a wp_post_id,
\* whatever integer it is, and a create when it has none.
C2_UpdateIffRecordedId ==
  \A p \in Procs :
    LET r == proc[p]
        sent == CallsAt(r, PostOps)
    IN Submitted(r) =>
         /\ Cardinality(sent) = 1
         /\ \A i \in sent :
              r.calls[i] = IF Has(r.frontmatter, "wp_post_id")
                           THEN Call("PUT /posts", numberToString(r.frontmatter["wp_post_id"]))
                           ELSE Call("POST /posts", <<>>)

\* C3: after a successful publish the document on disk records the post's id,
\* the URL the server reported and the status the server reported.
C3_WriteBackRecordsIdUrlStatus ==
  \A p \in Procs :
    LET r == proc[p]
        fm == parseFrontmatter(disk[r.file])
    IN Succeeded(r) =>
         /\ Has(fm, "wp_post_id") /\ fm["wp_post_id"] = r.post.id
         /\ Has(fm, "status") /\ fm["status"] = r.post.status
         /\ includes(disk[r.file], r.post.link)

\* the lines of the frontmatter block of content
BlockLines(content) ==
  IF frontmatterMatch(content) = 0 THEN <<>>
  ELSE split(SubSeq(content, Len(FrontmatterOpen) + 1, frontmatterMatch(content) - 1), "\n")

\* the status lines of the frontmatter block of content
StatusLines(content) ==
  LET lines == BlockLines(content)
  IN Pick(lines, {i \in DOMAIN lines : startsWith(toLowerCase(lines[i]), W_status \o <<":">>)})

\* C4: the submitted status is the override when one is given, otherwise the
\* frontmatter's status when it is one of the valid statuses, otherwise the
\* default status of the settings.
C4_StatusPrecedence ==
  \A p \in Procs :
    LET r == proc[p]
        fm == r.frontmatter
        given == StatusLines(r.content)
    IN Has(r.payload, "status") =>
         /\ Has(fm, "status") => fm["status"] \in VALID_STATUSES
         /\ (r.pc \in {"await_createPost", "await_updatePost"} /\ Len(given) = 1) =>
              \A v \in VALID_STATUSES \cup {<<"b","o","g","u","s">>} :
                given[1] = W_status \o <<":", " ">> \o v
                  => IF v \in VALID_STATUSES THEN Has(fm, "status") /\ fm["status"] = v
                     ELSE ~Has(fm, "status")
         /\ r.payload["status"] =
              IF r.override # <<>> THEN r.override[1]
              ELSE IF Has(fm, "status") THEN fm["status"]
              ELSE settings.defaultPostStatus

\* a draft override on a document whose frontmatter says future submits draft
C4_DraftOverridesFuture ==
  \E p \in Procs :
    /\ proc[p].override = <<S_draft>>
    /\ Has(proc[p].frontmatter, "status") /\ proc[p].frontmatter["status"] = S_future
    /\ Submitted(proc[p])
    /\ proc[p].payload["status"] = S_draft

\* C5: with the site URL, the username or the password missing, and with a
\* document outside the permitted scope, publish returns a failure without a
\* read, an upload, a request or a write.
C5_FatalChecksBeforeAnyCall ==
  \A p \in Procs :
    LET r == proc[p]
    IN (r.pc # "idle" /\ (notConfigured \/ ~isPublishable(Files[r.file]))) =>
         /\ r.calls = <<>>
         /\ r.pc = "returned"
         /\ Invoked(p) => Failed(r)

\* publish returned its failure for missing settings without any call
C5_UnconfiguredReturnsAtOnce ==
  \E p \in Procs :
    /\ notConfigured
    /\ Invoked(p)
    /\ Failed(proc[p])
    /\ proc[p].calls = <<>>

\* the file is a markdown note inside the configured folder or below it
InsideFolder(file) ==
  /\ file.extension = <<"m","d">>
  /\ \/ settings.publishableFolder = <<>>
     \/ startsWith(file.path, normalizePath(settings.publishableFolder) \o <<"/">>)

\* C6: with a publishable folder configured a document passes the scope check
\* only when it is a markdown note inside that folder or one of its subfolders;
\* with no folder configured every markdown note passes.
C6_ScopeIsFolderOrSubfolder ==
  \A p \in Procs :
    LET r == proc[p]
    IN (r.pc # "idle" /\ ~notConfigured) =>
         (r.calls # <<>> \/ r.pc # "returned") = InsideFolder(Files[r.file])

\* what publish returns: a PublishResult
IsPublishResult(res) ==
  /\ Has(res, "success")
  /\ IF res["success"]
     THEN Has(res, "postId") /\ Has(res, "postUrl")
     ELSE Has(res, "error")

\* the number of calls a publish of the document r read can issue: the read,
\* two per image reference, two per category or tag name, the create or update
\* request and the write
CallBound(r) ==
  3 + 2 * Len(r.refs)
    + 2 * (IF Has(r.frontmatter, "categories") THEN Len(r.frontmatter["categories"]) ELSE 0)
    + 2 * (IF Has(r.frontmatter, "tags") THEN Len(r.frontmatter["tags"]) ELSE 0)

\* C7: every call of publish ends by returning a PublishResult, a success with
\* the post's id and URL or a failure with a message: each awaited operation
\* that settles, by resolving or by rejecting, makes publish return such a
\* result or issue its next call, and the calls of one publish are bounded by
\* the document.
C7_AlwaysReturnsResult ==
  [][\A p \in Procs :
       proc'[p] # proc[p] =>
         /\ (Invoked(p)' /\ proc'[p].pc = "returned") => IsPublishResult(proc'[p].result)
         /\ proc[p].pc \notin {"idle", "returned"} =>
              \/ proc'[p].pc = "returned"
              \/ /\ Len(proc'[p].calls) > Len(proc[p].calls)
                 /\ Len(proc'[p].calls) <= CallBound(proc'[p])]_vars

\* the write-back failed after the post was created, and publish returned the failure
C7_WriteFailureReturned ==
  \E p \in Procs :
    /\ Failed(proc[p])
    /\ proc[p].calls # <<>>
    /\ proc[p].calls[Len(proc[p].calls)].op = "vault.modify"
    /\ proc[p].result["error"] = "write failed"

\* the image map of r is complete
ImagesDone(r) == Has(r.payload, "title") /\ r.refs # <<>>

\* the references of r that the loop tries to upload
Uploadable(r) == {i \in DOMAIN r.refs : imageFileOf(Files[r.file], r.refs[i]) # {}}

\* C8 as stated: an image whose upload failed has no entry in the image map.
C8_FailedImageHasNoEntry ==
  \A p \in Procs :
    LET r == proc[p]
    IN ImagesDone(r) =>
         \A i \in DOMAIN r.uploads :
           ~r.uploads[i].ok => ~Has(r.imageMap, r.uploads[i].path)

\* C8: a reference that cannot be resolved, read or uploaded is skipped alone:
\* every other reference is still tried, in order, the publish goes on to the
\* payload and the submission, and the failure adds nothing to the image map:
\* a path has an entry exactly when some reference to it was uploaded, and the
\* entry is the one of the last such upload.
C8_FailedReferenceAddsNoEntry ==
  \A p \in Procs :
    LET r == proc[p]
        tried == Pick(r.refs, Uploadable(r))
    IN /\ ImagesDone(r) =>
            /\ Len(r.uploads) = Len(tried)
            /\ \A i \in DOMAIN r.uploads : r.uploads[i].path = tried[i].path
            /\ DOMAIN r.imageMap = {r.uploads[i].path : i \in {j \in DOMAIN r.uploads : r.uploads[j].ok}}
            /\ \A i \in DOMAIN r.uploads :
                 (r.uploads[i].ok /\ \A j \in DOMAIN r.uploads :
                                       (j > i /\ r.uploads[j].path = r.uploads[i].path) => ~r.uploads[j].ok)
                   => r.imageMap[r.uploads[i].path].wordpressUrl = r.uploads[i].url
       /\ (Failed(r) /\ r.calls # <<>>) => r.calls[Len(r.calls)].op \notin ImageOps

\* the second reference to an uploaded image failed, the publish went on to the
\* submission, and the image has its entry
C8_SecondReferenceFailed ==
  \E p \in Procs :
    /\ Submitted(proc[p])
    /\ \E i, j \in DOMAIN proc[p].uploads :
         /\ i < j
         /\ proc[p].uploads[i].ok /\ ~proc[p].uploads[j].ok
         /\ proc[p].uploads[i].path = proc[p].uploads[j].path
         /\ Has(proc[p].imageMap, proc[p].uploads[j].path)

\* the positions in the history of r of the names of one kind
ResolvedAt(r, kind) == {i \in DOMAIN r.resolved : r.resolved[i].kind = kind}

\* C9: a category or tag name whose resolution fails is dropped alone: the
\* payload's id list holds the ids of the names that resolved, in the order of
\* the frontmatter's names, each the id of a term of that name, and the publish
\* goes on to the create or update request.
C9_FailedNameAloneDropped ==
  \A p \in Procs :
    LET r == proc[p]
    IN /\ \A kind \in {"categories", "tags"} :
            Has(r.payload, kind) =>
              LET all == Pick(r.resolved, ResolvedAt(r, kind))
                  good == Pick(r.resolved, {i \in ResolvedAt(r, kind) : r.resolved[i].ok})
              IN /\ Len(all) = Len(r.frontmatter[kind])
                 /\ \A i \in DOMAIN all : all[i].name = r.frontmatter[kind][i]
                 /\ Len(r.payload[kind]) = Len(good)
                 /\ \A i \in DOMAIN good :
                      /\ r.payload[kind][i] = good[i].id
                      /\ \E t \in terms : /\ t.kind = kind /\ t.id = good[i].id
                                          /\ toLowerCase(t.name) = toLowerCase(good[i].name)
       /\ (Failed(r) /\ r.calls # <<>>) => r.calls[Len(r.calls)].op \notin TermOps

\* the first of two categories failed to resolve and the post was submitted with
\* the id of the second alone
C9_FirstNameDropped ==
  \E p \in Procs :
    /\ Submitted(proc[p])
    /\ Has(proc[p].payload, "categories")
    /\ Len(proc[p].frontmatter["categories"]) = 2
    /\ Len(proc[p].payload["categories"]) = 1
    /\ ~proc[p].resolved[1].ok /\ proc[p].resolved[2].ok
    /\ proc[p].payload["categories"][1] = proc[p].resolved[2].id

\* the notices of r that report a failure
FailureNotices(r) ==
  {i \in DOMAIN r.notices : r.notices[i] \in {"Cannot publish", "Publishing failed"}}

\* C10: a publish that ends in a fatal failure shows exactly one failure notice.
C10_OneFailureNotice ==
  \A p \in Procs :
    LET r == proc[p]
    IN (r.pc = "returned" /\ ~Succeeded(r)) => Cardinality(FailureNotices(r)) = 1

\* invocations p and q ran publish on one note, each read it before the other
\* wrote it back, each created a post, and both have returned with success
Raced(p, q) ==
  /\ p # q
  /\ Succeeded(proc[p]) /\ Succeeded(proc[q])
  /\ proc[p].file = proc[q].file
  /\ proc[p].seen = proc[q].seen
  /\ CallsAt(proc[p], {"POST /posts"}) # {}
  /\ CallsAt(proc[q], {"POST /posts"}) # {}

\* C11: nothing excludes two publishes of one note from each other. When both
\* read the note before either writes it back and both create, two different
\* posts exist remotely, and the note's frontmatter records one id alone: that
\* of the invocation that wrote last.
C11_RaceTwoPostsOneRecorded ==
  \A p, q \in Procs :
    Raced(p, q) =>
      LET a == proc[p].result["postId"]
          b == proc[q].result["postId"]
          fm == parseFrontmatter(disk[proc[p].file])
      IN /\ a # b
         /\ {a, b} \subseteq posts \ InitialPosts
         /\ Has(fm, "wp_post_id")
         /\ fm["wp_post_id"] \in {a, b}
         /\ fm["wp_post_id"] = lastWrite[proc[p].file].id

\* C11 witness: two publishes of the never-published note have raced
C11_BothCreated ==
  \E p, q \in Procs : Raced(p, q) /\ proc[p].seen = NoWrite

\* C12: parsing what was serialized gives back the metadata set: for every set
\* of recognized fields whose lists are not empty, parseFrontmatter of the block
\* generateYaml wrote equals the set.
C12_RoundTrip ==
  /\ unit.stage = "roundtrip"
  /\ \A k \in {"categories", "tags"} : Has(unit.meta, k) => Len(unit.meta[k]) > 0
  => unit.parsed = unit.meta

\* C13: updating twice with the same partial set is the same as updating once:
\* updateFrontmatter(updateFrontmatter(doc, p), p) = updateFrontmatter(doc, p), for
\* every document, with or without a frontmatter block, and every partial set p,
\* the empty one included.
C13_UpdateIdempotent ==
  unit.stage = "updatedTwice" => unit.twice = unit.once

emittedKeys(yaml) ==
  LET lines == split(yaml, "\n")
      keyed == {i \in DOMAIN lines : kvKeyLength(lines[i]) > 0}
  IN [k \in 1..Cardinality(keyed) |->
        LET line == Pick(lines, keyed)[k] IN SubSeq(line, 1, kvKeyLength(line))]

\* the key order the frontmatter text contract fixes
ContractKeys ==
  <<"title", "slug", "status", "excerpt", "date", "categories", "tags", "wp_post_id",
    "wp_post_url">>

\* the word a key is written as
KeyWord(k) ==
  CASE k = "title" -> W_title [] k = "slug" -> W_slug [] k = "status" -> W_status
    [] k = "excerpt" -> W_excerpt [] k = "date" -> W_date
    [] k = "categories" -> W_categories [] k = "tags" -> W_tags
    [] k = "wp_post_id" -> W_wp_post_id
    [] k = "wp_post_url" -> <<"w","p","_","p","o","s","t","_","u","r","l">>

\* the field is defined and, when a list, not empty
ToEmit(meta, k) ==
  Has(meta, k) /\ (k \in {"categories", "tags"} => Len(meta[k]) > 0)

\* C18: the serialized block has one key line for each defined recognized
\* field, none for an undefined field or an empty list, in the fixed order
\* title, slug, status, excerpt, date, categories, tags, wp_post_id, wp_post_url.
C18_FixedKeyOrder ==
  unit.stage = "serialized" =>
    LET kept == {i \in DOMAIN ContractKeys : ToEmit(unit.meta, ContractKeys[i])}
    IN emittedKeys(unit.yaml) =
         [k \in 1..Cardinality(kept) |-> KeyWord(Pick(ContractKeys, kept)[k])]

\* C19: the payload carries a date exactly when the document's frontmatter has
\* a non-empty date and the status sent is future; the date sent is the
\* frontmatter's.
C19_DateIffFuture ==
  \A p \in Procs :
    LET r == proc[p]
        fm == r.frontmatter   \* parseFrontmatter(content) of the document read
    IN Has(r.payload, "title") =>
         /\ Has(r.payload, "date") <=>
               /\ Has(fm, "date") /\ fm["date"] # <<>>
               /\ r.payload["status"] = S_future
         /\ Has(r.payload, "date") => r.payload["date"] = fm["date"]

\* C19 witness: a scheduled document was submitted with its date
C19_ScheduledWithDate ==
  \E p \in Procs :
    /\ Submitted(proc[p])
    /\ proc[p].override = <<>>
    /\ Has(proc[p].payload, "date")
    /\ proc[p].payload["status"] = S_future

\* the place of an operation in a publish: read, images, categories, tags,
\* create or update, write-back
Phase(op) ==
  CASE op = "vault.read" -> 0
    [] op \in ImageOps -> 1
    [] op \in {"GET /categories", "POST /categories"} -> 2
    [] op \in {"GET /tags", "POST /tags"} -> 3
    [] op \in PostOps -> 4
    [] op = "vault.modify" -> 5

\* the operations an invocation at this position is waiting for
Awaited(pc) ==
  CASE pc = "await_read" -> {"vault.read"}
    [] pc = "await_readBinary" -> {"vault.readBinary"}
    [] pc = "await_uploadMedia" -> {"POST /media"}
    [] pc = "await_search" -> {"GET /categories", "GET /tags"}
    [] pc = "await_createTerm" -> {"POST /categories", "POST /tags"}
    [] pc = "await_createPost" -> {"POST /posts"}
    [] pc = "await_updatePost" -> {"PUT /posts"}
    [] pc = "await_modify" -> {"vault.modify"}
    [] OTHER -> {}

\* the names of a list field of the frontmatter
NamesOf(fm, k) == IF Has(fm, k) THEN {fm[k][i] : i \in DOMAIN fm[k]} ELSE {}

\* C20: within one publish the operations are issued one at a time and in
\* order: the only outstanding operation is the one issued last; image reads
\* and uploads come before the body is rendered and before any taxonomy
\* request, category requests before tag requests, and the one create or
\* update after every image has been tried and every category and tag name
\* has been looked up.
C20_OneAtATimeInOrder ==
  \A p \in Procs :
    LET r == proc[p]
        c == r.calls
    IN /\ \A i, j \in DOMAIN c : i < j => Phase(c[i].op) <= Phase(c[j].op)
       /\ r.pc \notin {"idle", "returned"} =>
             c # <<>> /\ c[Len(c)].op \in Awaited(r.pc)
       /\ Cardinality(CallsAt(r, PostOps)) <= 1
       /\ ~Has(r.payload, "title") => CallsAt(r, TermOps \cup PostOps) = {}
       /\ Has(r.payload, "title") /\ settings.uploadImages =>
             \A i \in Uploadable(r) :
               \E k \in CallsAt(r, {"vault.readBinary"}) : c[k].arg = r.refs[i].path
       /\ Submitted(r) =>
             /\ \A n \in NamesOf(r.frontmatter, "categories") :
                   \E k \in CallsAt(r, {"GET /categories"}) : c[k].arg = n
             /\ \A n \in NamesOf(r.frontmatter, "tags") :
                   \E k \in CallsAt(r, {"GET /tags"}) : c[k].arg = n

\* C20 witness: a publish that looked up categories and tags has written back
C20_TaxonomyThenPost ==
  \E p \in Procs :
    /\ Succeeded(proc[p])
    /\ CallsAt(proc[p], {"GET /categories"}) # {}
    /\ CallsAt(proc[p], {"GET /tags"}) # {}

\* the lines that are not blank, in order
nonBlank(lines) == Pick(lines, {i \in DOMAIN lines : trim(lines[i]) # <<>>})

\* the lines of every block, in the order of the blocks
blockLines(blocks) == flatten([i \in DOMAIN blocks |-> split(blocks[i], "\n")])

\* every code fence of the body is closed
fencesClosed(body) ==
  LET lines == split(body, "\n")
  IN Cardinality({i \in DOMAIN lines : isFence(lines[i])}) % 2 = 0

\* C14: segmentation drops no line and duplicates none: for a body whose code
\* fences are all closed, the non-blank lines of the emitted blocks, taken block
\* after block, are the non-blank lines of the body, each once and in order.
C14_EveryLineInOneBlock ==
  unit.stage \in {"segmented", "rendered"} /\ fencesClosed(unit.body) =>
    nonBlank(blockLines(unit.blocks)) = nonBlank(split(unit.body, "\n"))

\* C14 witness: a body of three lines with a closed callout was cut in two
\* blocks, one of them of two lines
C14_CalloutThenParagraph ==
  /\ unit.stage = "segmented"
  /\ Len(split(unit.body, "\n")) = 3
  /\ Len(unit.blocks) = 2
  /\ isCalloutHeader(unit.blocks[1])
  /\ Len(split(unit.blocks[1], "\n")) = 2
  /\ blockKind(unit.blocks[2]) = "paragraph"

\* the src value of every img tag of a rendered text
srcsOf(html) ==
  LET open == <<" ","s","r","c","=","\"">>
      starts == {i \in DOMAIN html : startsWithAt(html, open, i)}
  IN {SubSeq(html, i + Len(open), i + Len(open) + spanNot(html, i + Len(open), {"\""}) - 1) :
        i \in starts}

\* the src values of all rendered blocks
renderedSrcs(html) == UNION {srcsOf(html[i]) : i \in DOMAIN html}

\* C15: every image reference discovered in the document is rendered: with the
\* mapped URL when the image map has an entry for its path, with its own path
\* when it has none; on a line of its own or inside text, in either syntax; and
\* no image is rendered with an empty URL or with any other URL.
C15_ReferencesRenderedWithMappedUrl ==
  unit.stage = "rendered" =>
    LET refs == extractImageReferences(unit.doc)
        expected == {IF Has(unit.imageMap, refs[i].path)
                     THEN unit.imageMap[refs[i].path].wordpressUrl
                     ELSE refs[i].path : i \in DOMAIN refs}
    IN /\ renderedSrcs(unit.html) = expected
       /\ <<>> \notin renderedSrcs(unit.html)

\* > [!warning]- Careful
CalloutHeaderLine == <<">"," ","[","!","w","a","r","n","i","n","g","]","-"," ","C","a","r","e","f","u","l">>

\* the header followed by the line "Watch out", and by the line "> Watch out"
DocCalloutBare == CalloutHeaderLine \o <<"\n">> \o <<"W","a","t","c","h"," ","o","u","t">>

DocCalloutQuoted == CalloutHeaderLine \o <<"\n">> \o <<">"," ","W","a","t","c","h"," ","o","u","t">>

\* a foldable, collapsed callout of kind warning titled Careful with this body
CarefulCallout(body) ==
  [type |-> <<"w","a","r","n","i","n","g">>, title |-> <<"C","a","r","e","f","u","l">>, content |-> body,
   foldable |-> TRUE, defaultFolded |-> TRUE]

\* C16 as stated: converting the header line followed by the line "Watch out"
\* yields one callout, foldable, collapsed by default, of kind warning, titled
\* Careful, with the body "Watch out".
C16_BareLineIsCalloutBody ==
  unit.stage = "rendered" /\ unit.doc = DocCalloutBare =>
    /\ Len(unit.blocks) = 1
    /\ blockKind(unit.blocks[1]) = "callout"
    /\ parseCallout(trim(unit.blocks[1])) = CarefulCallout(<<"W","a","t","c","h"," ","o","u","t">>)

\* C16 amended: a body that opens with the header line yields first a callout,
\* foldable, collapsed by default, of kind warning, titled Careful. Followed by
\* "> Watch out" it is the one block and its body is "Watch out", rendered under
\* the title; followed by "Watch out" without the quote mark the callout ends at
\* its header, its body is empty, and "Watch out" is a paragraph of its own.
C16_QuotedLineIsCalloutBody ==
  unit.stage = "rendered" =>
    /\ startsWith(unit.doc, CalloutHeaderLine \o <<"\n">>) \/ unit.doc = CalloutHeaderLine =>
         LET info == parseCallout(trim(unit.blocks[1]))
         IN /\ blockKind(unit.blocks[1]) = "callout"
            /\ info.type = <<"w","a","r","n","i","n","g">> /\ info.title = <<"C","a","r","e","f","u","l">>
            /\ info.foldable /\ info.defaultFolded
    /\ unit.doc = DocCalloutQuoted =>
         /\ Len(unit.blocks) = 1
         /\ parseCallout(trim(unit.blocks[1])) = CarefulCallout(<<"W","a","t","c","h"," ","o","u","t">>)
         /\ includes(unit.html[1], <<"<","s","t","r","o","n","g",">","C","a","r","e","f","u","l","<","/","s","t","r","o","n","g",">","<","/","p",">","<","p",">","W","a","t","c","h"," ","o","u","t","<","/","p",">">>)
    /\ unit.doc = DocCalloutBare =>
         /\ Len(unit.blocks) = 2
         /\ parseCallout(trim(unit.blocks[1])) = CarefulCallout(<<>>)
         /\ blockKind(unit.blocks[2]) = "paragraph"
         /\ unit.blocks[2] = <<"W","a","t","c","h"," ","o","u","t">>

\* C16 witness: the header followed by "> Watch out" was rendered as a callout
C16_CollapsedWarningRendered ==
  /\ unit.stage = "rendered"
  /\ unit.doc = DocCalloutQuoted
  /\ blockKind(unit.blocks[1]) = "callout"
  /\ parseCallout(trim(unit.blocks[1])).defaultFolded

\* how many of the calls of r are op with this argument
Times(r, op, arg) ==
  Cardinality({i \in DOMAIN r.calls : r.calls[i].op = op /\ r.calls[i].arg = arg})

\* how many references of the document name this path
Referenced(r, path) == Cardinality({i \in DOMAIN r.refs : r.refs[i].path = path})

\* how many times a list field of the frontmatter holds this name
Listed(fm, k, name) ==
  IF Has(fm, k) THEN Cardinality({i \in DOMAIN fm[k] : fm[k][i] = name}) ELSE 0

\* C21: no remote call is retried. Within one publish every image reference
\* is read and uploaded at most once, every category and tag name is searched
\* at most once and created at most once, the create or update request is
\* issued at most once, and a publish whose create or update request failed
\* has returned a failure with that request as its last call.
C21_NoCallRetried ==
  \A p \in Procs :
    LET r == proc[p]
        c == r.calls
    IN /\ \A i \in CallsAt(r, ImageOps) :
            Times(r, c[i].op, c[i].arg) <= Referenced(r, c[i].arg)
       /\ \A i \in CallsAt(r, {"GET /categories", "POST /categories"}) :
            Times(r, c[i].op, c[i].arg) <= Listed(r.frontmatter, "categories", c[i].arg)
       /\ \A i \in CallsAt(r, {"GET /tags", "POST /tags"}) :
            Times(r, c[i].op, c[i].arg) <= Listed(r.frontmatter, "tags", c[i].arg)
       /\ Cardinality(CallsAt(r, PostOps)) <= 1
       /\ \A i \in CallsAt(r, PostOps) :
            \/ i = Len(c) /\ (r.pc = "returned" => Failed(r))
            \/ i = Len(c) - 1 /\ c[Len(c)].op = "vault.modify"

\* C21 witness: after uploads and taxonomy requests the create request failed
\* and the publish returned a failure
C21_RequestFailedOnce ==
  \E p \in Procs :
    /\ Failed(proc[p])
    /\ CallsAt(proc[p], TermOps) # {}
    /\ Len(proc[p].calls) \in CallsAt(proc[p], PostOps)

\* the accumulator holds a block that was begun by a callout header
CalloutOpen(st) ==
  Len(st.currentBlock) > 0 /\ isCalloutHeader(st.currentBlock[1])

\* the locals once the open block is emitted and the callout flag cleared
CalloutClosed(st) == [flushBlock(st) EXCEPT !.inCallout = FALSE]

\* C22 as stated: after every line, inCallout is true only while the
\* accumulator holds a block begun by a callout header; a line fed during a
\* callout that starts with ">" or is blank extends that block, and any other
\* line, a code fence included, emits the block, clears inCallout and is then
\* classified by the remaining rules.
C22_CalloutFlagFollowsBlock ==
  unit.stage = "feeding" =>
    /\ unit.st.inCallout => CalloutOpen(unit.st)
    /\ unit.i > 1 /\ unit.before.inCallout /\ CalloutOpen(unit.before) =>
         LET line == unit.lines[unit.i - 1]
         IN IF isCalloutHeader(line) THEN CalloutOpen(unit.st)
            ELSE IF startsWith(line, <<">">>) \/ trim(line) = <<>>
            THEN unit.st = pushLine(unit.before, line)
            ELSE /\ ~unit.st.inCallout
                 /\ unit.st = splitLine(CalloutClosed(unit.before), line)

\* the whole text is one image reference in one of the two syntaxes
OneImageReference(text) ==
  \/ standardImageAt(text, 1) # <<>> /\ standardImageAt(text, 1)[5] = Len(text)
  \/ wikilinkImageAt(text, 1) # <<>> /\ wikilinkImageAt(text, 1)[5] = Len(text)

\* C23 as stated: a block is rendered as an Image block only when its whole
\* line is exactly one image reference, so every reference and all the text
\* of a line that holds more than one image is found in the rendering.
C23_ImageBlockIsOneReference ==
  unit.stage = "rendered" =>
    \A i \in DOMAIN unit.blocks :
      blockKind(unit.blocks[i]) = "image" =>
        /\ OneImageReference(trim(unit.blocks[i]))
        /\ \A ref \in Range(extractImageReferences(unit.blocks[i])) :
              urlOf(unit.imageMap, ref.path) \in srcsOf(unit.html[i])

\* the terms a search returned whose name is the searched one, whatever the case
Returned(r) ==
  {t \in searchTerms(r.kind, r.names[r.idx]) :
     toLowerCase(t.name) = toLowerCase(r.names[r.idx])}

\* the request that creates a term of the kind being resolved
CreateOp(r) == IF r.kind = "categories" THEN "POST /categories" ELSE "POST /tags"

\* the entry the step added to the resolved names, <<>> when it added none
Added(r, s) ==
  IF Len(s.resolved) = Len(r.resolved) + 1
  THEN <<s.resolved[Len(s.resolved)]>> ELSE <<>>

\* C24: when the search for a name returns a term whose name equals it
\* ignoring case, the id of such a term is used and no create request is
\* issued; when it returns none, a create request for the name is issued, and
\* the id of the term created is the one used.
C24_MatchElseCreate ==
  [][\A p \in Procs :
       LET r == proc[p]
           s == proc'[p]
       IN /\ r.pc = "await_search" /\ s # r =>
               \/ Added(r, s) # <<>> /\ ~Added(r, s)[1].ok /\ terms' = terms
               \/ /\ Returned(r) # {}
                  /\ Added(r, s) # <<>> /\ Added(r, s)[1].ok
                  /\ Added(r, s)[1].id \in {t.id : t \in Returned(r)}
                  /\ \A k \in DOMAIN s.calls :
                        k > Len(r.calls) => s.calls[k] # Call(CreateOp(r), r.names[r.idx])
               \/ /\ Returned(r) = {}
                  /\ s.pc = "await_createTerm"
                  /\ s.calls = Append(r.calls, Call(CreateOp(r), r.names[r.idx]))
          /\ r.pc = "await_createTerm" /\ s # r =>
               \/ Added(r, s) # <<>> /\ ~Added(r, s)[1].ok /\ terms' = terms
               \/ /\ Added(r, s) # <<>> /\ Added(r, s)[1].ok
                  /\ terms' \ terms = {[kind |-> r.kind, name |-> r.names[r.idx],
                                         id |-> Added(r, s)[1].id]}
  ]_vars

\* C24 witness: "news" was resolved to the existing category News without a
\* create request, and a category that did not exist was created
C24_MatchedOneCreatedOne ==
  \E p \in Procs :
    /\ \E i \in DOMAIN proc[p].resolved :
          /\ proc[p].resolved[i].ok /\ proc[p].resolved[i].id = 3
          /\ proc[p].resolved[i].name = <<"n","e","w","s">>
    /\ Times(proc[p], "POST /categories", <<"n","e","w","s">>) = 0
    /\ CallsAt(proc[p], {"POST /categories"}) # {}
    /\ \E i \in DOMAIN proc[p].resolved :
          proc[p].resolved[i].ok /\ proc[p].resolved[i].id > 3

\* a publish is running in invocation p
InProgress(p) == proc[p].pc \notin {"idle", "returned"}

\* C25 as stated: no command modifies the settings while the publish of
\* another invocation is in progress, and a publish that was not started as a draft and whose document
\* has no status is submitted with the configured default status, also when a
\* publish as draft runs at the same time.
C25_SettingsUntouchedByDraft ==
  [][\A p \in Procs :
       /\ InProgress(p) /\ proc'[p] = proc[p] => settings' = settings
       /\ /\ proc'[p].originalStatus = <<>> /\ proc'[p].override = <<>>
          /\ Has(proc'[p].payload, "title")
          /\ ~Has(proc'[p].frontmatter, "status")
          => proc'[p].payload["status"] = SettingsConfigured.defaultPostStatus
  ]_vars

\* C26: the text of a note changes only in the step that settles the
\* vault.modify of a publish of that note, after its create or update request
\* succeeded, and becomes the text that publish computed; a step in which a
\* publish returns a failure, or returns without having called publish,
\* leaves every note as it was.
C26_WrittenOnlyInWriteBack ==
  [][/\ \A f \in FileIds :
          disk'[f] # disk[f] =>
            \E p \in Procs :
              /\ proc[p].pc = "await_modify" /\ proc[p].file = f
              /\ proc[p].post # EmptyFrontmatter
              /\ CallsAt(proc[p], PostOps) # {}
              /\ Succeeded(proc'[p])
              /\ disk'[f] = proc[p].updatedContent
     /\ \A p \in Procs :
          proc'[p] # proc[p] /\ proc'[p].pc = "returned" /\ ~Succeeded(proc'[p])
            => disk' = disk
  ]_vars

\* C26 witness: a publish of a note with frontmatter failed at the create or
\* update request and the note on disk is the text that was read
C26_FailedSubmissionLeftNote ==
  \E p \in Procs :
    /\ Failed(proc[p])
    /\ Len(proc[p].calls) \in CallsAt(proc[p], PostOps)
    /\ proc[p].frontmatter # EmptyFrontmatter
    /\ disk[proc[p].file] = proc[p].content

\* C27 as stated: the write-back of a successful publish changes only the
\* frontmatter block: the body of the note after the write is the body the
\* note had on disk just before it, also when the note was edited after the
\* publish read it.
C27_WriteBackKeepsBody ==
  [][\A p \in Procs :
       proc[p].pc = "await_modify" /\ Succeeded(proc'[p]) =>
         removeFrontmatter(disk'[proc[p].file]) = removeFrontmatter(disk[proc[p].file])
  ]_vars

\* C28: each publish renders its document with the image map it built itself:
\* the map the body was converted with is the map of that publish, whose
\* entries are paths that its own document references and that it uploaded.
C28_RenderedWithOwnMap ==
  \A p \in Procs :
    LET r == proc[p]
    IN Has(r.payload, "title") =>
         /\ r.payload["content"].body = removeFrontmatter(r.content)
         /\ r.payload["content"].imageMap = r.imageMap
         /\ \A path \in DOMAIN r.imageMap :
               /\ Referenced(r, path) > 0
               /\ Times(r, "POST /media", path) > 0

\* C28 witness: two publishes of different notes have both rendered their
\* body and are still running, one with an uploaded image and one without
C28_TwoMapsInFlight ==
  /\ \A p \in Procs : InProgress(p) /\ Has(proc[p].payload, "title")
  /\ proc[1].file # proc[2].file
  /\ proc[1].imageMap # proc[2].imageMap

\* C29 as stated: a publish that returned a failure has not created or
\* updated a remote post, and after a publish whose create request succeeded
\* has returned, the frontmatter of the note on disk holds the created id.
C29_ResultReportsRemoteEffect ==
  \A p \in Procs :
    LET r == proc[p]
        fm == parseFrontmatter(disk[r.file])
    IN /\ Failed(r) => r.post = EmptyFrontmatter
       /\ r.pc = "returned" /\ r.post # EmptyFrontmatter
          /\ CallsAt(r, {"POST /posts"}) # {}
          => Has(fm, "wp_post_id") /\ fm["wp_post_id"] = r.post.id

\* the text of a line of a list block: what follows the item marker of either
\* kind, or the trimmed line when it has no marker
ListLineText(line) ==
  LET lead == spanSpace(line, 1)
      rest == From(line, lead + 1)
  IN IF isUnorderedAt(rest, 1) THEN trim(From(rest, 3))
     ELSE IF isOrderedAt(rest, 1) THEN trim(From(rest, spanDigits(rest, 1) + 3))
     ELSE trim(line)

\* C30 as stated: rendering a list block loses no content: the text of every
\* non-blank line the segmenter put into a list block, marker line of either
\* kind or continuation line, indented or not, is in a rendered list item.
C30_ListKeepsEveryLine ==
  unit.stage = "rendered" =>
    \A i \in DOMAIN unit.blocks :
      blockKind(unit.blocks[i]) \in {"ordered", "unordered"} =>
        LET items == parseListItems(trim(unit.blocks[i]),
                                    blockKind(unit.blocks[i]) = "ordered")
            lines == split(trim(unit.blocks[i]), "\n")
        IN \A k \in DOMAIN lines :
             trim(lines[k]) # <<>> =>
               \E n \in DOMAIN items : includes(items[n], ListLineText(lines[k]))

====
